---- MODULE Spec2Model ----
(***************************************************************************)
(* Meta tic-tac-toe: the recursive bit-packed board of game.rs, the flat   *)
(* two-level board of version1.rs, and the Monte Carlo tree search of      *)
(* version1.rs.                                                            *)
(*                                                                         *)
(* A 9-bit mask (u16) is modelled as the set of its set bit positions, a   *)
(* subset of 0..8: `x |= 1 << i` is x \cup {i}, `x & mask != 0` is         *)
(* i \in x.  Option<T> is a sequence: <<>> is None, <<v>> is Some(v).      *)
(* Arrays indexed from 0 are functions on 0..n-1; slices (&[usize]) are    *)
(* sequences.                                                              *)
(***************************************************************************)
EXTENDS Integers, Sequences, FiniteSets, TLC

(***************************************************************************)
(* Program constants.                                                      *)
(***************************************************************************)
BOARD_SIZE == 3

BOARD_SIZE_SQUARED == BOARD_SIZE * BOARD_SIZE

\* game.rs nesting depth.  The source ships META_DEPTH = 1 and documents the
\* constant as the one to change; the two-level game is the configuration
\* the forwarding rule is about, so the model fixes it at 2.
META_DEPTH == 2

\* version1.rs: 1 = 9x9, i.e. nine leaf boards.
META_BOARD_DEPTH == 1

Cells == 0 .. (BOARD_SIZE_SQUARED - 1)

\* 0b111_000_000, 0b000_111_000, 0b000_000_111, 0b100_100_100,
\* 0b010_010_010, 0b001_001_001, 0b100_010_001, 0b001_010_100
WINNING_POSITIONS ==
    << {6, 7, 8}, {3, 4, 5}, {0, 1, 2}, {2, 5, 8},
       {1, 4, 7}, {0, 3, 6}, {0, 4, 8}, {2, 4, 6} >>

FULL_MASK == Cells

RECURSIVE Pow(_, _)
Pow(b, e) == IF e = 0 THEN 1 ELSE b * Pow(b, e - 1)

Ok(v, b) == [ok |-> TRUE, val |-> v, b |-> b]

Err(msg, b) == [ok |-> FALSE, val |-> msg, b |-> b]

(***************************************************************************)
(* game.rs: PlayerMarker, MetaMove                                         *)
(***************************************************************************)
G_to_other(p) ==
    CASE p = "X" -> "O"
      [] p = "O" -> "X"
      [] OTHER -> "Empty"

\* MetaMove::new: index 0, the path copied.
G_MetaMove_new(absolute_index) == [absolute_index |-> absolute_index, index |-> 0]

\* MetaMove::new on a slice of any length: the panic of its length check,
\* the panic of try_into().unwrap() on a slice shorter than the array, or
\* the move.
G_MetaMove_new_outcome(absolute_index) ==
    IF Len(absolute_index) > META_DEPTH
    THEN [ok |-> FALSE, val |-> "panic: Invalid index length"]
    ELSE IF Len(absolute_index) # META_DEPTH
    THEN [ok |-> FALSE, val |-> "panic: TryFromSliceError"]
    ELSE [ok |-> TRUE, val |-> G_MetaMove_new(absolute_index)]

G_MetaMove_new_empty == [absolute_index |-> [i \in 1 .. META_DEPTH |-> 0], index |-> 0]

\* derive(PartialEq): == compares every field, the private index included.
G_MetaMove_eq(a, b) == a.absolute_index = b.absolute_index /\ a.index = b.index

G_MetaMove_clear(m) == [m EXCEPT !.index = 0]

G_MetaMove_push(m, i) ==
    [absolute_index |-> [m.absolute_index EXCEPT ![m.index + 1] = i],
     index |-> m.index + 1]

G_MetaMove_pop(m) == [m EXCEPT !.index = m.index - 1]

\* Mutant: the path is not rotated.
G_MetaMove_shift_left_none(m) == G_MetaMove_new(m.absolute_index)

\* rotate_left(1) on the path, then MetaMove::new.
G_MetaMove_shift_left(m) ==
    G_MetaMove_new(Tail(m.absolute_index) \o <<Head(m.absolute_index)>>)

(***************************************************************************)
(* game.rs: BitBoard                                                       *)
(***************************************************************************)
G_BitBoard_new == [x |-> {}, o |-> {}]

G_BitBoard_get(b, index) ==
    IF index \in b.x THEN "X" ELSE IF index \in b.o THEN "O" ELSE "Empty"

RECURSIVE G_winner_from(_, _)
G_winner_from(b, k) ==
    IF k > Len(WINNING_POSITIONS) THEN "Empty"
    ELSE IF WINNING_POSITIONS[k] \subseteq b.x THEN "X"
    ELSE IF WINNING_POSITIONS[k] \subseteq b.o THEN "O"
    ELSE G_winner_from(b, k + 1)

G_BitBoard_get_winner(b) == G_winner_from(b, 1)

\* Mutant: no check that the cell is free.
G_BitBoard_set_unchecked(b, index, player) ==
    LET nb == CASE player = "X" -> [b EXCEPT !.x = @ \cup {index}]
                [] player = "O" -> [b EXCEPT !.o = @ \cup {index}]
                [] OTHER -> b
    IN  Ok(G_BitBoard_get_winner(nb), nb)

G_BitBoard_set(b, index, player) ==
    IF index \in (b.x \cup b.o)
    THEN Err("Move was already played", b)
    ELSE LET nb == CASE player = "X" -> [b EXCEPT !.x = @ \cup {index}]
                     [] player = "O" -> [b EXCEPT !.o = @ \cup {index}]
                     [] OTHER -> b
         IN  Ok(G_BitBoard_get_winner(nb), nb)

\* Mutant: only the X mask is cleared.
G_BitBoard_unset_x_only(b, index) ==
    IF Len(index) # 1 THEN b
    ELSE [x |-> b.x \ {index[1]}, o |-> b.o]

G_BitBoard_unset(b, index) ==
    IF Len(index) # 1 THEN b
    ELSE [x |-> b.x \ {index[1]}, o |-> b.o \ {index[1]}]

\* The empty cells of a leaf board among `cells`, in that order.
EmptyAmong(b, cells) == SelectSeq(cells, LAMBDA c : c \notin b.x /\ c \notin b.o)

\* Mutant: the scan stops one cell early.
G_leaf_scan_short(b, i, next_move) ==
    LET e == EmptyAmong(b, [k \in 1 .. BOARD_SIZE_SQUARED - 1 |-> k - 1])
    IN  [k \in 1 .. Len(e) |-> G_MetaMove_push(next_move, e[k])]

\* Mutant: the scan runs from the last cell to the first.
G_leaf_scan_down(b, i, next_move) ==
    LET e == EmptyAmong(b, [k \in 1 .. BOARD_SIZE_SQUARED |-> BOARD_SIZE_SQUARED - k])
    IN  [k \in 1 .. Len(e) |-> G_MetaMove_push(next_move, e[k])]

\* Mutant: the scan looks at the X mask only.
G_leaf_scan_x(b, i, next_move) ==
    LET e == SelectSeq([k \in 1 .. BOARD_SIZE_SQUARED |-> k - 1],
                       LAMBDA c : c \notin b.x)
    IN  [k \in 1 .. Len(e) |-> G_MetaMove_push(next_move, e[k])]

RECURSIVE G_leaf_scan(_, _, _)
G_leaf_scan(b, i, next_move) ==
    IF i >= BOARD_SIZE_SQUARED THEN <<>>
    ELSE (IF i \notin b.x /\ i \notin b.o
          THEN <<G_MetaMove_push(next_move, i)>>
          ELSE <<>>) \o G_leaf_scan(b, i + 1, next_move)

\* The `_index` argument is ignored by the source.
G_BitBoard_get_empty_positions(b, index, next_move) ==
    IF G_BitBoard_get_winner(b) # "Empty" THEN <<>>
    ELSE G_leaf_scan(b, 0, next_move)

G_BitBoard_can_set(b) ==
    G_BitBoard_get_winner(b) = "Empty" /\ (b.x \cup b.o) # FULL_MASK

(***************************************************************************)
(* game.rs: Board = BitBoard | MetaBoard {board, sub_boards}               *)
(***************************************************************************)
IsMetaBoard(b) == "sub_boards" \in DOMAIN b

RECURSIVE G_Board_create_board(_)
G_Board_create_board(depth) ==
    IF depth = 1 THEN G_BitBoard_new
    ELSE [board |-> G_BitBoard_new,
          sub_boards |-> [i \in Cells |-> G_Board_create_board(depth - 1)]]

G_Board_new == G_Board_create_board(META_DEPTH)

RECURSIVE G_Board_set(_, _, _)
RECURSIVE G_MetaBoard_set(_, _, _)

G_MetaBoard_set(mb, index, player) ==
    IF Len(index) <= 1 THEN Err("Index is too short", mb)
    ELSE LET spec_index == index[1] IN
         IF G_BitBoard_get(mb.board, spec_index) # "Empty"
         THEN Err("Board is already won", mb)
         ELSE LET r   == G_Board_set(mb.sub_boards[spec_index], Tail(index), player)
                  mb1 == [mb EXCEPT !.sub_boards[spec_index] = r.b]
              IN  IF ~r.ok THEN Err(r.val, mb1)
                  ELSE IF r.val # "Empty"
                  THEN LET s == G_BitBoard_set(mb1.board, spec_index, r.val)
                       IN  IF ~s.ok THEN Err(s.val, mb1)
                           ELSE LET mb2 == [mb1 EXCEPT !.board = s.b]
                                IN  Ok(G_BitBoard_get_winner(mb2.board), mb2)
                  ELSE Ok(G_BitBoard_get_winner(mb1.board), mb1)

G_Board_set(b, meta_move, player) ==
    IF Len(meta_move) = 0 THEN Err("Index is empty", b)
    ELSE IF IsMetaBoard(b) THEN G_MetaBoard_set(b, meta_move, player)
    ELSE IF Len(meta_move) = 1 THEN G_BitBoard_set(b, meta_move[1], player)
    ELSE Err("Invalid Index", b)

RECURSIVE G_Board_unset(_, _)
RECURSIVE G_MetaBoard_unset(_, _)

\* Mutant: the summary cell is left as it is.
G_MetaBoard_unset_keep_summary(mb, index) ==
    IF Len(index) <= 1 THEN mb
    ELSE [mb EXCEPT !.sub_boards[index[1]] = G_Board_unset(@, Tail(index))]

G_MetaBoard_unset(mb, index) ==
    IF Len(index) <= 1 THEN mb
    ELSE LET spec_index == index[1] IN
         [board |-> G_BitBoard_unset(mb.board, <<spec_index>>),
          sub_boards |-> [mb.sub_boards EXCEPT
                            ![spec_index] = G_Board_unset(@, Tail(index))]]

\* Called only with a MetaMove's path, whose length META_DEPTH is never 0
\* (the empty-path panic is unreachable).
G_Board_unset(b, meta_move) ==
    IF IsMetaBoard(b) THEN G_MetaBoard_unset(b, meta_move)
    ELSE G_BitBoard_unset(b, meta_move)

G_Board_get_winner(b) ==
    IF IsMetaBoard(b) THEN G_BitBoard_get_winner(b.board)
    ELSE G_BitBoard_get_winner(b)

RECURSIVE G_Board_can_set(_)
G_Board_can_set(b) ==
    IF IsMetaBoard(b)
    THEN G_BitBoard_get_winner(b.board) = "Empty"
         /\ \E i \in Cells : G_Board_can_set(b.sub_boards[i])
    ELSE G_BitBoard_can_set(b)

RECURSIVE G_Board_get(_, _)
G_Board_get(b, index) ==
    IF IsMetaBoard(b)
    THEN IF Len(index) <= 1 THEN G_BitBoard_get(b.board, index[1])
         ELSE G_Board_get(b.sub_boards[index[1]], Tail(index))
    ELSE G_BitBoard_get(b, index[1])

RECURSIVE G_Board_get_empty_positions(_, _, _)
RECURSIVE G_MetaBoard_get_empty_positions(_, _, _)
RECURSIVE G_meta_scan(_, _, _)

\* The loop over all sub-boards whose summary cell is empty.
G_meta_scan(mb, i, next_move) ==
    IF i >= BOARD_SIZE_SQUARED THEN <<>>
    ELSE (IF G_BitBoard_get(mb.board, i) # "Empty" THEN <<>>
          ELSE G_Board_get_empty_positions(mb.sub_boards[i], <<>>,
                                           G_MetaMove_push(next_move, i)))
         \o G_meta_scan(mb, i + 1, next_move)

\* Mutant: a won board still lists moves.
G_MetaBoard_get_empty_positions_won(mb, index, next_move) ==
    IF index = <<>> \/ G_BitBoard_get(mb.board, index[1]) # "Empty"
    THEN G_meta_scan(mb, 0, next_move)
    ELSE G_Board_get_empty_positions(mb.sub_boards[index[1]], Tail(index),
                                     G_MetaMove_push(next_move, index[1]))

G_MetaBoard_get_empty_positions(mb, index, next_move) ==
    IF G_BitBoard_get_winner(mb.board) # "Empty" THEN <<>>
    ELSE IF index = <<>> \/ G_BitBoard_get(mb.board, index[1]) # "Empty"
    THEN G_meta_scan(mb, 0, next_move)
    ELSE G_Board_get_empty_positions(mb.sub_boards[index[1]], Tail(index),
                                     G_MetaMove_push(next_move, index[1]))

G_Board_get_empty_positions(b, index, next_move) ==
    IF IsMetaBoard(b) THEN G_MetaBoard_get_empty_positions(b, index, next_move)
    ELSE G_BitBoard_get_empty_positions(b, index, next_move)

(***************************************************************************)
(* game.rs: GameState                                                      *)
(***************************************************************************)
G_GameState_new ==
    [board |-> G_Board_new, current_player |-> "X", last_move |-> <<>>]

G_GameState_get_winner(s) == G_Board_get_winner(s.board)

\* Mutant: the turn passes on a refused move too.
G_GameState_set_always_flips(s, meta_move) ==
    LET r == G_Board_set(s.board, meta_move.absolute_index, s.current_player)
    IN  [ok |-> r.ok, val |-> r.val,
         s |-> [board |-> r.b,
                current_player |-> G_to_other(s.current_player),
                last_move |-> IF r.ok THEN <<meta_move>> ELSE s.last_move]]

\* Result: ok, val (the returned marker or the error message) and the state
\* after the call.
G_GameState_set(s, meta_move) ==
    LET r == G_Board_set(s.board, meta_move.absolute_index, s.current_player)
    IN  IF r.ok
        THEN [ok |-> TRUE, val |-> r.val,
              s |-> [board |-> r.b,
                     current_player |-> G_to_other(s.current_player),
                     last_move |-> <<meta_move>>]]
        ELSE [ok |-> FALSE, val |-> r.val, s |-> [s EXCEPT !.board = r.b]]

\* Mutant: the turn stays where it is when a move is taken back.
G_GameState_unset_no_flip(s, previous_move) ==
    IF s.last_move # <<>>
    THEN [board |-> G_Board_unset(s.board, s.last_move[1].absolute_index),
          current_player |-> s.current_player,
          last_move |-> previous_move]
    ELSE s

G_GameState_unset(s, previous_move) ==
    IF s.last_move # <<>>
    THEN [board |-> G_Board_unset(s.board, s.last_move[1].absolute_index),
          current_player |-> G_to_other(s.current_player),
          last_move |-> previous_move]
    ELSE s

\* possible_moves.clear() and next_move.clear() make the result independent
\* of the buffers' lengths; next_move keeps its stale path components, which
\* every listed move overwrites.
G_GameState_get_possible_moves(s, next_move) ==
    LET next_index == IF s.last_move # <<>>
                      THEN G_MetaMove_shift_left(s.last_move[1]).absolute_index
                      ELSE <<>>
    IN  G_Board_get_empty_positions(s.board, next_index, G_MetaMove_clear(next_move))

G_moves(s) == G_GameState_get_possible_moves(s, G_MetaMove_new_empty)

Range(seq) == {seq[i] : i \in 1 .. Len(seq)}

(***************************************************************************)
(* version1.rs: PlayerMarker, BitBoard                                     *)
(***************************************************************************)
V1_other(p) == IF p = "X" THEN "O" ELSE "X"

V1_BitBoard_new == [x |-> {}, o |-> {}]

V1_BitBoard_set(b, player, position) ==
    IF player = "X" THEN [b EXCEPT !.x = @ \cup {position}]
    ELSE [b EXCEPT !.o = @ \cup {position}]

V1_BitBoard_unset(b, player, position) ==
    IF player = "X" THEN [b EXCEPT !.x = @ \ {position}]
    ELSE [b EXCEPT !.o = @ \ {position}]

\* Mutant: only X's mask is compared.
V1_BitBoard_is_full_x(b) == b.x = FULL_MASK

V1_BitBoard_is_full(b) == (b.x \cup b.o) = FULL_MASK

\* for &winning_position in WINNING_POSITIONS.iter(): the lines that either
\* player holds; the loop returns at the first of them, X looked at before O.
V1_winner_from(b) ==
    {k \in 1 .. Len(WINNING_POSITIONS) :
        WINNING_POSITIONS[k] \subseteq b.x \/ WINNING_POSITIONS[k] \subseteq b.o}

V1_winner_first(held) == CHOOSE k \in held : \A l \in held : k <= l

V1_winner_of(b, held) ==
    IF held = {} THEN "None"
    ELSE IF WINNING_POSITIONS[V1_winner_first(held)] \subseteq b.x THEN "X" ELSE "O"

V1_BitBoard_get_winner(b) == V1_winner_of(b, V1_winner_from(b))

\* Mutant: a board with a winner still takes marks while it has a free cell.
V1_BitBoard_can_set_won(b) == ~V1_BitBoard_is_full(b)

V1_BitBoard_can_set(b) ==
    ~V1_BitBoard_is_full(b) /\ V1_BitBoard_get_winner(b) = "None"

\* iter::successors(Some(0), |i| Some(i + 1)).take(BOARD_SIZE_SQUARED)
V1_successors == [k \in 1 .. BOARD_SIZE_SQUARED |-> k - 1]

V1_filter_empty(b) ==
    LET empty(i) == i \notin (b.x \cup b.o) IN SelectSeq(V1_successors, empty)

\* Mutant: a decided board still lists its unset cells.
V1_BitBoard_get_empty_positions_decided(b) == V1_filter_empty(b)

V1_BitBoard_get_empty_positions(b) ==
    IF ~V1_BitBoard_can_set(b) THEN <<>> ELSE V1_filter_empty(b)

(***************************************************************************)
(* version1.rs: MetaMove                                                   *)
(***************************************************************************)
META_BOARD_SIZE == Pow(BOARD_SIZE_SQUARED, META_BOARD_DEPTH)

RECURSIVE V1_fold(_, _)
V1_fold(acc, absolute_index) ==
    IF absolute_index = <<>> THEN acc
    ELSE V1_fold(acc * BOARD_SIZE * BOARD_SIZE + Head(absolute_index),
                 Tail(absolute_index))

V1_absolute_index_to_meta(absolute_index) == V1_fold(0, absolute_index)

\* for i in (0..META_BOARD_DEPTH).rev(): digit i is the remainder, then divide.
V1_meta_to_absolute_index(meta_index) ==
    [i \in 1 .. META_BOARD_DEPTH |->
        (meta_index \div Pow(BOARD_SIZE_SQUARED, META_BOARD_DEPTH - i))
            % BOARD_SIZE_SQUARED]

\* From<(usize, usize)>
V1_MetaMove_from(meta_index, board_index) ==
    [absolute_index |-> V1_meta_to_absolute_index(meta_index),
     meta_index |-> meta_index,
     board_index |-> board_index]

\* impl PartialEq: the two indices, not the path.
V1_MetaMove_eq(a, b) ==
    a.meta_index = b.meta_index /\ a.board_index = b.board_index

V1_MetaMove_shift_left(m) ==
    IF Len(m.absolute_index) = 0
    THEN [absolute_index |-> m.absolute_index, meta_index |-> 0, board_index |-> 0]
    ELSE LET shifted == Tail(m.absolute_index) \o <<m.board_index>>
         IN  [absolute_index |-> shifted,
              meta_index |-> V1_absolute_index_to_meta(shifted),
              board_index |-> 0]

(***************************************************************************)
(* main.rs: MetaMove, on the flat array of boards of depth 2               *)
(***************************************************************************)
M_META_BOARD_DEPTH == 2

M_META_BOARD_SIZE == Pow(BOARD_SIZE_SQUARED, M_META_BOARD_DEPTH)

\* absolute_index.iter().fold(0, |acc, &index| acc * BOARD_SIZE * BOARD_SIZE + index)
M_absolute_index_to_meta(absolute_index) == V1_fold(0, absolute_index)

\* for i in 0..META_BOARD_DEPTH: digit i is the remainder, then divide.
M_meta_to_absolute_index(meta_index) ==
    [i \in 1 .. M_META_BOARD_DEPTH |->
        (meta_index \div Pow(BOARD_SIZE_SQUARED, i - 1)) % BOARD_SIZE_SQUARED]

\* From<(usize, usize)>
M_MetaMove_from(meta_index, board_index) ==
    [absolute_index |-> M_meta_to_absolute_index(meta_index),
     meta_index |-> meta_index,
     board_index |-> board_index]

\* derive(PartialEq): the path and the two indices.
M_MetaMove_eq(a, b) ==
    /\ a.absolute_index = b.absolute_index
    /\ a.meta_index = b.meta_index
    /\ a.board_index = b.board_index

M_MetaMove_shift_left(m) ==
    IF Len(m.absolute_index) = 0
    THEN [absolute_index |-> m.absolute_index, meta_index |-> 0, board_index |-> 0]
    ELSE LET shifted == Tail(m.absolute_index) \o <<m.board_index>>
         IN  [absolute_index |-> shifted,
              meta_index |-> M_absolute_index_to_meta(shifted),
              board_index |-> 0]

(***************************************************************************)
(* version1.rs: MetaBoard                                                  *)
(***************************************************************************)
V1_MetaBoard_new ==
    [boards |-> [i \in 0 .. (META_BOARD_SIZE - 1) |-> V1_BitBoard_new],
     last_move |-> <<>>,
     current_player |-> "X"]

V1_MetaBoard_set(mb, meta_move) ==
    [boards |-> [mb.boards EXCEPT ![meta_move.meta_index] =
                    V1_BitBoard_set(@, mb.current_player, meta_move.board_index)],
     last_move |-> <<meta_move>>,
     current_player |-> V1_other(mb.current_player)]

\* self.last_move.unwrap(): the callers of the model only unset a board
\* whose last_move is Some.
V1_MetaBoard_unset(mb, previous_move) ==
    LET last_move == mb.last_move[1]
        player    == V1_other(mb.current_player)
    IN  [boards |-> [mb.boards EXCEPT ![last_move.meta_index] =
                        V1_BitBoard_unset(@, player, last_move.board_index)],
         last_move |-> previous_move,
         current_player |-> player]

\* positions.into_iter().map(|board_index| From::from((meta_index, board_index)))
V1_board_moves(meta_index, positions) ==
    [k \in 1 .. Len(positions) |-> V1_MetaMove_from(meta_index, positions[k])]

\* The cells of boards[from..to], board by board and position by position.
V1_cells(from, to) ==
    [k \in 1 .. (to - from) * BOARD_SIZE_SQUARED |->
        V1_MetaMove_from(from + (k - 1) \div BOARD_SIZE_SQUARED,
                         (k - 1) % BOARD_SIZE_SQUARED)]

\* boards[from..to].iter().enumerate().flat_map(..): of these cells, in that
\* order, those that get_empty_positions of their board lists.
V1_flat_map(mb, from, to) ==
    SelectSeq(V1_cells(from, to),
              LAMBDA c : /\ V1_BitBoard_can_set(mb.boards[c.meta_index])
                         /\ c.board_index \notin (mb.boards[c.meta_index].x
                                                    \cup mb.boards[c.meta_index].o))

V1_MetaBoard_get_empty_positions(mb) == V1_flat_map(mb, 0, META_BOARD_SIZE)

RECURSIVE V1_MetaBoard_get_winner(_, _)
V1_MetaBoard_get_winner(mb, index) ==
    IF Len(index) = META_BOARD_DEPTH
    THEN V1_BitBoard_get_winner(mb.boards[V1_absolute_index_to_meta(index)])
    ELSE V1_BitBoard_get_winner(
            [x |-> {i \in Cells : V1_MetaBoard_get_winner(mb, Append(index, i)) = "X"},
             o |-> {i \in Cells : V1_MetaBoard_get_winner(mb, Append(index, i)) = "O"}])

\* loop { if get_winner(&absolute_index[..i]).is_some() || i == DEPTH {break}; i += 1 }
RECURSIVE V1_scope_depth(_, _, _)
V1_scope_depth(mb, last_move, i) ==
    IF V1_MetaBoard_get_winner(mb, SubSeq(last_move.absolute_index, 1, i)) # "None"
       \/ i = META_BOARD_DEPTH
    THEN i
    ELSE V1_scope_depth(mb, last_move, i + 1)

\* for i in (0..i).rev(): the first non-empty scan wins; none: all empty
\* positions.
RECURSIVE V1_scope_scan(_, _, _)
V1_scope_scan(mb, last_move, i) ==
    IF i < 0 THEN V1_MetaBoard_get_empty_positions(mb)
    ELSE LET start == V1_absolute_index_to_meta(SubSeq(last_move.absolute_index, 1, i))
             vet   == V1_flat_map(mb, start, start + BOARD_SIZE * BOARD_SIZE)
         IN  IF vet # <<>> THEN vet ELSE V1_scope_scan(mb, last_move, i - 1)

V1_MetaBoard_get_possible_moves(mb) ==
    IF mb.last_move = <<>> THEN V1_MetaBoard_get_empty_positions(mb)
    ELSE LET last_move == mb.last_move[1] IN
         IF V1_MetaBoard_get_winner(mb, <<>>) # "None" THEN <<>>
         ELSE LET next_meta_index == V1_MetaMove_shift_left(last_move).meta_index IN
              IF V1_BitBoard_can_set(mb.boards[next_meta_index])
              THEN V1_board_moves(next_meta_index,
                       V1_BitBoard_get_empty_positions(mb.boards[next_meta_index]))
              ELSE LET i == V1_scope_depth(mb, last_move, 0) IN
                   IF i = 0 THEN <<>>
                   ELSE V1_scope_scan(mb, last_move, i - 1)

V1_moves(b) == V1_MetaBoard_get_possible_moves(b)

(***************************************************************************)
(* The players' moves.  A game follows one of four recorded games, each    *)
(* legal move by move, and may leave it for at most MaxFree moves chosen   *)
(* freely among the legal ones.                                            *)
(***************************************************************************)
MaxFree == 1

\* X completes a row of the root board with the 25th move.
ScriptXWins ==
    << <<3, 7>>, <<7, 1>>, <<1, 4>>, <<4, 1>>, <<1, 6>>, <<6, 0>>,
       <<0, 0>>, <<0, 1>>, <<1, 3>>, <<3, 2>>, <<2, 4>>, <<4, 2>>,
       <<2, 7>>, <<7, 0>>, <<0, 8>>, <<8, 0>>, <<0, 4>>, <<4, 4>>,
       <<4, 3>>, <<3, 4>>, <<4, 0>>, <<7, 2>>, <<2, 1>>, <<1, 1>>,
       <<1, 0>> >>

\* O completes a line of the root board with the 26th move.
ScriptOWins ==
    << <<0, 6>>, <<6, 5>>, <<5, 0>>, <<0, 8>>, <<8, 3>>, <<3, 8>>,
       <<8, 0>>, <<0, 4>>, <<4, 6>>, <<6, 8>>, <<8, 8>>, <<8, 2>>,
       <<2, 0>>, <<0, 0>>, <<1, 6>>, <<6, 2>>, <<2, 3>>, <<3, 6>>,
       <<4, 2>>, <<2, 4>>, <<4, 1>>, <<1, 8>>, <<8, 5>>, <<5, 5>>,
       <<5, 3>>, <<3, 7>> >>

\* All nine leaf boards decided after 44 moves, no line on the root board.
ScriptDraw ==
    << <<1, 2>>, <<2, 5>>, <<5, 3>>, <<3, 0>>, <<0, 4>>, <<4, 2>>,
       <<2, 8>>, <<8, 0>>, <<0, 7>>, <<7, 6>>, <<6, 8>>, <<8, 8>>,
       <<8, 7>>, <<7, 0>>, <<0, 3>>, <<3, 4>>, <<4, 1>>, <<1, 6>>,
       <<6, 7>>, <<7, 8>>, <<8, 1>>, <<1, 0>>, <<0, 8>>, <<8, 4>>,
       <<4, 8>>, <<7, 7>>, <<4, 7>>, <<3, 8>>, <<1, 1>>, <<1, 3>>,
       <<6, 6>>, <<2, 2>>, <<2, 3>>, <<0, 5>>, <<5, 8>>, <<2, 1>>,
       <<5, 0>>, <<0, 1>>, <<5, 6>>, <<4, 3>>, <<4, 4>>, <<0, 0>>,
       <<0, 6>>, <<2, 0>> >>

\* Leaf board 7 is full with no line after the 31st move; the 32nd move
\* plays cell 7 of leaf board 5.
ScriptFullTarget ==
    << <<7, 1>>, <<1, 0>>, <<0, 7>>, <<7, 2>>, <<2, 1>>, <<1, 4>>,
       <<4, 4>>, <<4, 0>>, <<0, 6>>, <<6, 1>>, <<1, 7>>, <<7, 3>>,
       <<3, 0>>, <<0, 3>>, <<3, 2>>, <<2, 4>>, <<4, 5>>, <<5, 8>>,
       <<8, 7>>, <<7, 0>>, <<0, 2>>, <<2, 7>>, <<7, 6>>, <<6, 7>>,
       <<7, 4>>, <<4, 7>>, <<7, 8>>, <<8, 3>>, <<3, 7>>, <<7, 7>>,
       <<7, 5>>, <<5, 7>> >>

Scripts == {ScriptXWins, ScriptOWins, ScriptDraw, ScriptFullTarget}

\* The root-to-leaf path of a move of either implementation.
G_path(m) == m.absolute_index

V1_path(m) == Append(m.absolute_index, m.board_index)

\* The longest prefix of the played paths that is a prefix of script s.
RECURSIVE Common(_, _, _)
Common(paths, s, k) ==
    IF k < Len(paths) /\ k < Len(s) /\ paths[k + 1] = s[k + 1]
    THEN Common(paths, s, k + 1)
    ELSE k

Allowed(paths) ==
    \E s \in Scripts : Len(paths) - Common(paths, s, 0) <= MaxFree

(***************************************************************************)
(* version1.rs: GameTreeKnot and MonteCarlo.                               *)
(*                                                                         *)
(* score is a sum of 0, 0.5 and 1: the model keeps score2 = 2 * score, an  *)
(* integer, and a returned value v as 2 * v, so that 1 - v is 2 - v2.      *)
(* visit_count is a count kept in an f32; both are exact in f32 over the   *)
(* model's range.                                                          *)
(***************************************************************************)
V1_is_valid_move(b, meta_move) ==
    /\ ~(\/ meta_move.meta_index >= META_BOARD_SIZE
         \/ meta_move.board_index >= BOARD_SIZE_SQUARED
         \/ ~V1_BitBoard_can_set(b.boards[meta_move.meta_index]))
    /\ \A i \in 0 .. (META_BOARD_DEPTH - 1) :
         V1_MetaBoard_get_winner(b, SubSeq(meta_move.absolute_index, 1, i)) = "None"

V1_GameTreeKnot(move_) ==
    [children |-> <<>>, move_ |-> move_, score2 |-> 0, visit_count |-> 0]

V1_MonteCarlo_new == V1_GameTreeKnot(<<>>)

\* exploration * sqrt(ln(parent_visits) / child_visits) with exploration =
\* 1.4, in millionths, rounded: row parent_visits, column child_visits.  Two
\* UCT values of the model's range that differ do so by more than 14
\* millionths, so the table orders them as the f64 values are ordered.
UCT_UNIT == 1000000

UCT_EXPLORATION ==
    <<
       << 0, 0, 0, 0, 0, 0, 0, 0,
          0, 0, 0, 0, 0, 0, 0, 0 >>,
       << 1165576, 824187, 672946, 582788, 521262, 475845, 440546, 412094,
          388525, 368588, 351435, 336473, 323273, 311513, 300951, 291394 >>,
       << 1467406, 1037613, 847207, 733703, 656244, 599066, 554627, 518806,
          489135, 464034, 442440, 423604, 406985, 392181, 378883, 366851 >>,
       << 1648374, 1165576, 951689, 824187, 737175, 672946, 623027, 582788,
          549458, 521262, 497003, 475845, 457177, 440546, 425608, 412094 >>,
       << 1776091, 1255886, 1025426, 888045, 794292, 725086, 671299, 627943,
          592030, 561649, 535512, 512713, 492599, 474680, 458585, 444023 >>,
       << 1873993, 1325113, 1081950, 936996, 838075, 765054, 708303, 662556,
          624664, 592609, 565030, 540975, 519752, 500846, 483863, 468498 >>,
       << 1952942, 1380939, 1127532, 976471, 873382, 797285, 738143, 690469,
          650981, 617575, 588834, 563766, 541649, 521946, 504248, 488236 >>,
       << 2018838, 1427534, 1165576, 1009419, 902852, 824187, 763049, 713767,
          672946, 638413, 608702, 582788, 559925, 539557, 521262, 504709 >>,
       << 2075225, 1467406, 1198132, 1037613, 928069, 847207, 784361, 733703,
          691742, 656244, 625704, 599066, 575564, 554627, 535821, 518806 >>,
       << 2124398, 1502176, 1226522, 1062199, 950060, 867282, 802947, 751088,
          708133, 671794, 640530, 613261, 589202, 567769, 548517, 531099 >>,
       << 2167919, 1532951, 1251649, 1083960, 969523, 885049, 819397, 766475,
          722640, 685556, 653652, 625824, 601273, 579401, 559754, 541980 >>,
       << 2206902, 1560515, 1274156, 1103451, 986957, 900964, 834131, 780258,
          735634, 697884, 665406, 637078, 612085, 589819, 569820, 551726 >>,
       << 2242164, 1585450, 1294514, 1121082, 1002726, 915360, 847458, 792725,
          747388, 709035, 676038, 647257, 621864, 599244, 578924, 560541 >>,
       << 2274325, 1608190, 1313082, 1137162, 1017109, 928489, 859614, 804095,
          758108, 719205, 685735, 656541, 630784, 607839, 587228, 568581 >>,
       << 2303862, 1629076, 1330135, 1151931, 1030318, 940548, 870778, 814538,
          767954, 728545, 694640, 665068, 638976, 615733, 594855, 575965 >>,
       << 2331153, 1648374, 1345892, 1165576, 1042523, 951689, 881093, 824187,
          777051, 737175, 702869, 672946, 646545, 623027, 601901, 582788 >>
    >>

MaxVisits == Len(UCT_EXPLORATION)

\* uct(a) > uct(b) for two children of `parent`: f64::MAX for an unvisited
\* child, else score / visits + exploration, compared over the common
\* denominator 2 * a.visit_count * b.visit_count * UCT_UNIT.
V1_uct_gt(parent, a, b) ==
    IF a.visit_count = 0 THEN b.visit_count # 0
    ELSE IF b.visit_count = 0 THEN FALSE
    ELSE LET ea == UCT_EXPLORATION[parent.visit_count][a.visit_count]
             eb == UCT_EXPLORATION[parent.visit_count][b.visit_count]
             d  == 2 * a.visit_count * b.visit_count
         IN  a.score2 * b.visit_count * UCT_UNIT + d * ea
                > b.score2 * a.visit_count * UCT_UNIT + d * eb

\* Mutant: the first child, whatever its uct.
V1_best_uct_first(node) == 1

\* The loop of select_and_backtrack: a later child replaces the best one
\* only with a greater uct, which leaves the first child of the highest uct.
\* Children are children[1..n] here, children[0..n-1] in the source.
V1_best_uct(node) ==
    CHOOSE i \in 1 .. Len(node.children) :
        \A j \in 1 .. Len(node.children) :
            IF j < i THEN V1_uct_gt(node, node.children[i], node.children[j])
            ELSE ~V1_uct_gt(node, node.children[j], node.children[i])

\* rng.gen_range(0..n): the j-th draw of the stream of seed `seed`.
Draw(seed, j, n) == (seed * (j + 1)) % n

\* let index = rng.gen_range(0..possible_moves.len());
\* meta_board.set(possible_moves[index]), or the break of the loop.
V1_playout_pick(b, possible_moves, seed, j) ==
    IF possible_moves = <<>> THEN b
    ELSE V1_MetaBoard_set(b, possible_moves[Draw(seed, j, Len(possible_moves)) + 1])

\* One round of the loop of playout: a random legal move, if one remains.
V1_playout_round(b, seed, j) ==
    V1_playout_pick(b, V1_MetaBoard_get_possible_moves(b), seed, j)

\* The loop of playout: rounds until no move remains, taken here in runs of
\* at most n rounds.
RECURSIVE V1_playout_rounds(_, _, _, _)
V1_playout_rounds(b, seed, j, n) ==
    IF n = 0 \/ V1_MetaBoard_get_possible_moves(b) = <<>> THEN b
    ELSE V1_playout_rounds(V1_playout_round(b, seed, j), seed, j + 1, n - 1)

RECURSIVE V1_playout_loop(_, _, _)
V1_playout_loop(b, seed, j) ==
    IF V1_MetaBoard_get_possible_moves(b) = <<>> THEN b
    ELSE V1_playout_loop(V1_playout_rounds(b, seed, j, BOARD_SIZE_SQUARED),
                         seed, j + BOARD_SIZE_SQUARED)

\* Mutant: the score of the other player.
V1_playout_score2_other(current_player, winner) ==
    IF winner = "None" THEN 1
    ELSE IF winner = current_player THEN 0 ELSE 2

\* The score of playout, doubled: 1. for the player to move when playout
\* was entered, 0. for the other one, 0.5 for no winner.
V1_playout_score2(current_player, winner) ==
    IF winner = "None" THEN 1
    ELSE IF winner = current_player THEN 2 ELSE 0

\* Mutant: the score is recorded without the visit.
V1_playout_return_uncounted(node, score2) ==
    [node |-> [node EXCEPT !.score2 = @ + score2], result2 |-> score2]

\* self.visit_count += 1.; self.score += score; score
V1_playout_return(node, score2) ==
    [node |-> [node EXCEPT !.visit_count = @ + 1, !.score2 = @ + score2],
     result2 |-> score2]

V1_playout(node, meta_board, seed) ==
    V1_playout_return(node,
        V1_playout_score2(meta_board.current_player,
            V1_MetaBoard_get_winner(
                V1_playout_loop(V1_MetaBoard_set(meta_board, node.move_[1]), seed, 1),
                <<>>)))

\* Mutant: the children are tagged with the forwarded locators.
V1_new_children_shifted(possible_moves) ==
    [k \in 1 .. Len(possible_moves) |->
        V1_GameTreeKnot(<<V1_MetaMove_shift_left(possible_moves[k])>>)]

\* Mutant: the children are pushed in reverse order.
V1_new_children_reversed(possible_moves) ==
    [k \in 1 .. Len(possible_moves) |->
        V1_GameTreeKnot(<<possible_moves[Len(possible_moves) + 1 - k]>>)]

\* for move_ in &possible_moves { self.children.push(GameTreeKnot { .. }) }
V1_new_children(possible_moves) ==
    [k \in 1 .. Len(possible_moves) |-> V1_GameTreeKnot(<<possible_moves[k]>>)]

\* expand_and_playout on a board without moves: the value of its winner.
V1_expand_terminal(node, current_player, winner) ==
    [node |-> node,
     result2 |-> IF winner = "None" THEN 1
                 ELSE IF winner = current_player THEN 0 ELSE 2]

\* self.children[rand_index].playout(&mut meta_board): what the child
\* returns is returned as it is.
V1_expand_return(node, children, rand_index, p) ==
    [node |-> [node EXCEPT !.children = [children EXCEPT ![rand_index] = p.node]],
     result2 |-> p.result2]

V1_expand(node, meta_board, seed, possible_moves) ==
    IF possible_moves = <<>>
    THEN V1_expand_terminal(node, meta_board.current_player,
                            V1_MetaBoard_get_winner(meta_board, <<>>))
    ELSE LET children   == V1_new_children(possible_moves)
             rand_index == Draw(seed, 0, Len(possible_moves)) + 1
         IN  V1_expand_return(node, children, rand_index,
                              V1_playout(children[rand_index], meta_board, seed))

\* The board is the caller's clone: what the playout does to it is dropped.
V1_expand_and_playout(node, meta_board, seed) ==
    V1_expand(node, meta_board, seed, V1_MetaBoard_get_possible_moves(meta_board))

\* let score = self.expand_and_playout(..); self.score += score; return score
V1_backtrack_leaf(meta_board, e) ==
    [node |-> [e.node EXCEPT !.score2 = @ + e.result2],
     board |-> meta_board,
     result2 |-> e.result2]

RECURSIVE V1_select_and_backtrack(_, _, _)

\* Mutant: the descent without the visit of the node counted.
V1_backtrack_child_uncounted(node, n1, meta_board, seed, best_child) ==
    LET move_   == node.children[best_child].move_[1]
        r       == V1_select_and_backtrack(node.children[best_child],
                       V1_MetaBoard_set(meta_board, move_), seed)
        result2 == 2 - r.result2
    IN  [node |-> [node EXCEPT !.children[best_child] = r.node,
                               !.score2 = @ + result2],
         board |-> V1_MetaBoard_unset(r.board, node.move_),
         result2 |-> result2]

\* The descent into children[best_child] and the way back: n1 is the node
\* with its visit counted, node.move_ the move unset is handed.
V1_backtrack_child(node, n1, meta_board, seed, best_child) ==
    LET move_   == n1.children[best_child].move_[1]
        r       == V1_select_and_backtrack(n1.children[best_child],
                       V1_MetaBoard_set(meta_board, move_), seed)
        result2 == 2 - r.result2
    IN  [node |-> [n1 EXCEPT !.children[best_child] = r.node,
                             !.score2 = @ + result2],
         board |-> V1_MetaBoard_unset(r.board, node.move_),
         result2 |-> result2]

\* One call: the node and the board after it, and the returned value.
V1_select_and_backtrack(node, meta_board, seed) ==
    LET n1 == [node EXCEPT !.visit_count = @ + 1] IN
    IF n1.children = <<>>
    THEN V1_backtrack_leaf(meta_board, V1_expand_and_playout(n1, meta_board, seed))
    ELSE V1_backtrack_child(node, n1, meta_board, seed, V1_best_uct(n1))

\* The head of get_move: the child whose move is the board's last move
\* becomes the root, if the root has a move and such a child exists.
V1_find_child(children, last_move) ==
    LET found == {i \in 1 .. Len(children) :
                    /\ children[i].move_ # <<>>
                    /\ V1_MetaMove_eq(children[i].move_[1], last_move)}
    IN  IF found = {} THEN 0 ELSE CHOOSE i \in found : \A k \in found : i <= k

\* Mutant: a board with a last move always gets a new root.
V1_get_move_reroot_fresh(tree_head, meta_board) ==
    IF meta_board.last_move # <<>> THEN V1_GameTreeKnot(meta_board.last_move)
    ELSE tree_head

V1_get_move_reroot(tree_head, meta_board) ==
    IF meta_board.last_move # <<>> /\ tree_head.move_ # <<>>
    THEN LET i == V1_find_child(tree_head.children, meta_board.last_move[1])
         IN  IF i > 0 THEN tree_head.children[i] ELSE tree_head
    ELSE tree_head

\* max_by over score / visit_count: of several maximal children the last.
\* Called with every child visited (no NaN among the ratios).
V1_max_by(children) ==
    CHOOSE i \in 1 .. Len(children) :
        \A k \in 1 .. Len(children) :
            IF k > i
            THEN children[i].score2 * children[k].visit_count
                   > children[k].score2 * children[i].visit_count
            ELSE children[i].score2 * children[k].visit_count
                   >= children[k].score2 * children[i].visit_count

\* The board a recorded game has reached after its first k moves, X and O
\* moving in turn: the marks MetaBoard::set has put on it.
V1_replay(script, k) ==
    LET marks(a, parity) ==
            {script[j][2] : j \in {i \in 1 .. k : i % 2 = parity /\ script[i][1] = a}}
    IN  [boards |-> [a \in 0 .. (META_BOARD_SIZE - 1) |->
                        [x |-> marks(a, 1), o |-> marks(a, 0)]],
         last_move |-> IF k = 0 THEN <<>>
                       ELSE <<V1_MetaMove_from(script[k][1], script[k][2])>>,
         current_player |-> IF k % 2 = 0 THEN "X" ELSE "O"]

\* The set and unset calls of an arbitrary caller of game.rs address these
\* cells: a line in each of two leaf boards and one more cell.
MaxCalls == 6

CallPaths ==
    {<<0, 0>>, <<0, 1>>, <<0, 2>>, <<0, 4>>, <<1, 0>>, <<1, 1>>, <<1, 2>>}

CallMoves == {G_MetaMove_new(p) : p \in CallPaths}

VARIABLES impl, gs, mb, ret, hist, matched, ncalls,
          tree_head, work, pc, iter, turns, before, bg

\* The engine and its driver: MonteCarlo.tree_head, the board get_move
\* searches on (its by-value parameter), where Game::start stands, the
\* iterations done and the calls of get_move made, and the tree and the
\* board as the last iteration found them.
mcVars == <<tree_head, work, pc, iter, turns, before, bg>>

vars == <<impl, gs, mb, ret, hist, matched, ncalls,
          tree_head, work, pc, iter, turns, before, bg>>

\* What the caller saved before the last move: the previous last_move.
Previous == IF Len(hist) >= 2 THEN <<hist[Len(hist) - 1]>> ELSE <<>>

Front(s) == SubSeq(s, 1, Len(s) - 1)

InitBoards ==
    /\ gs = G_GameState_new
    /\ mb = V1_MetaBoard_new
    /\ ret = [op |-> "new", ok |-> TRUE, val |-> "Empty"]
    /\ hist = <<>>
    /\ matched = TRUE
    /\ ncalls = 0

\* No background engine runs.
BG_off == [lock |-> "free"]

InitEngine ==
    /\ tree_head = V1_MonteCarlo_new
    /\ work = V1_MetaBoard_new
    /\ iter = 0
    /\ turns = 0
    /\ before = [tree |-> V1_MonteCarlo_new, board |-> V1_MetaBoard_new]
    /\ bg = BG_off

Init ==
    /\ impl \in {"game", "version1"}
    /\ InitBoards
    /\ InitEngine
    /\ pc = "idle"

\* game.rs: a player picks one of get_possible_moves and the driver sets it.
GamePlay ==
    /\ impl = "game"
    /\ \E m \in Range(G_moves(gs)) :
         /\ Allowed([i \in 1 .. Len(hist) |-> G_path(hist[i])] \o <<G_path(m)>>)
         /\ LET r == G_GameState_set(gs, m) IN
            /\ gs' = r.s
            /\ ret' = [op |-> "set", ok |-> r.ok, val |-> r.val]
         /\ hist' = Append(hist, m)
    /\ UNCHANGED <<impl, mb, matched, ncalls, mcVars>>

\* game.rs: the last move is taken back with the move before it.
GameUndo ==
    /\ impl = "game"
    /\ hist # <<>>
    /\ gs' = G_GameState_unset(gs, Previous)
    /\ ret' = [op |-> "unset", ok |-> TRUE, val |-> "Empty"]
    /\ hist' = Front(hist)
    /\ UNCHANGED <<impl, mb, matched, ncalls, mcVars>>

\* version1.rs: a player picks one of get_possible_moves and Game::start
\* sets it.
V1Play ==
    /\ impl = "version1"
    /\ \E m \in Range(V1_moves(mb)) :
         /\ Allowed([i \in 1 .. Len(hist) |-> V1_path(hist[i])] \o <<V1_path(m)>>)
         /\ mb' = V1_MetaBoard_set(mb, m)
         /\ hist' = Append(hist, m)
    /\ ret' = [op |-> "set", ok |-> TRUE, val |-> "Empty"]
    /\ UNCHANGED <<impl, gs, matched, ncalls, mcVars>>

V1Undo ==
    /\ impl = "version1"
    /\ hist # <<>>
    /\ mb' = V1_MetaBoard_unset(mb, Previous)
    /\ ret' = [op |-> "unset", ok |-> TRUE, val |-> "Empty"]
    /\ hist' = Front(hist)
    /\ UNCHANGED <<impl, gs, matched, ncalls, mcVars>>

Next == GamePlay \/ GameUndo \/ V1Play \/ V1Undo

Spec == Init /\ [][Next]_vars

(***************************************************************************)
(* game.rs under an arbitrary caller: any set, legal or not, and any       *)
(* unset, with the true previous move or with another one.  `matched`      *)
(* records that every unset so far was given the true previous move.       *)
(***************************************************************************)
InitCalls ==
    /\ impl = "calls"
    /\ InitBoards
    /\ InitEngine
    /\ pc = "idle"

CallSet ==
    /\ impl = "calls"
    /\ pc = "idle"
    /\ ncalls < MaxCalls
    /\ \E m \in CallMoves :
         LET r == G_GameState_set(gs, m) IN
         /\ gs' = r.s
         /\ ret' = [op |-> "set", ok |-> r.ok, val |-> r.val]
         /\ hist' = IF r.ok /\ matched THEN Append(hist, m) ELSE hist
    /\ ncalls' = ncalls + 1
    /\ UNCHANGED <<impl, mb, matched, mcVars>>

CallUnset ==
    /\ impl = "calls"
    /\ pc = "idle"
    /\ ncalls < MaxCalls
    /\ \E p \in {<<>>} \cup {<<m>> : m \in CallMoves} :
         /\ gs' = G_GameState_unset(gs, p)
         /\ matched' = (matched /\ (gs.last_move = <<>> \/ p = Previous))
         /\ hist' = IF ~matched' THEN <<>>
                    ELSE IF gs.last_move = <<>> THEN hist
                    ELSE Front(hist)
    /\ ret' = [op |-> "unset", ok |-> TRUE, val |-> "Empty"]
    /\ ncalls' = ncalls + 1
    /\ UNCHANGED <<impl, mb, mcVars>>

\* Paths of a length other than META_DEPTH.
WrongPaths ==
    {<<>>, <<0>>, <<4>>, [i \in 1 .. META_DEPTH + 1 |-> 0],
     [i \in 1 .. META_DEPTH + 1 |-> i]}

\* The caller builds a move from a path of the wrong length, to set it: the
\* thread panics in MetaMove::new and GameState::set is not reached.
CallNew ==
    /\ impl = "calls"
    /\ pc = "idle"
    /\ ncalls < MaxCalls
    /\ \E p \in WrongPaths :
         /\ ~G_MetaMove_new_outcome(p).ok
         /\ ret' = [op |-> "new_move", ok |-> FALSE,
                    val |-> G_MetaMove_new_outcome(p).val]
    /\ pc' = "panicked"
    /\ ncalls' = ncalls + 1
    /\ UNCHANGED <<impl, gs, mb, hist, matched, tree_head, work, iter, turns, before, bg>>

NextCalls == CallSet \/ CallUnset \/ CallNew

SpecCalls == InitCalls /\ [][NextCalls]_vars

(***************************************************************************)
(* version1.rs: Game::start with a MonteCarlo engine against a             *)
(* RandomPlayer, the engine moving first or second on the board Game::new  *)
(* makes.  get_move is also the Player interface, handed the board of a    *)
(* game in progress: a new engine is asked for a move on positions of the  *)
(* recorded games, where few moves remain and the search reaches the end   *)
(* of the game.                                                            *)
(*                                                                         *)
(* MaxIter stands for the 20000 iterations of get_move.  get_move returns  *)
(* once they are done and every child of the root has been visited, which  *)
(* 20000 iterations see to on a board of at most 81 moves.                 *)
(***************************************************************************)
MaxIter == 5

MaxTurns == 3

NSeeds == 2

Seeds == 1 .. NSeeds

\* <<recorded game, moves played>>: 2, 4, 2, 1 and 5 legal moves remain.
MidGame ==
    {<<ScriptDraw, 42>>, <<ScriptDraw, 43>>, <<ScriptFullTarget, 29>>,
     <<ScriptFullTarget, 30>>, <<ScriptXWins, 24>>}

\* get_move is public and takes any board: recorded games at their end,
\* won by X and drawn.
EndedGame == {<<ScriptXWins, Len(ScriptXWins)>>, <<ScriptDraw, Len(ScriptDraw)>>}

InitMC ==
    /\ impl = "mcts"
    /\ gs = G_GameState_new
    /\ ret = [op |-> "new", ok |-> TRUE, val |-> "Empty"]
    /\ hist = <<>>
    /\ matched = TRUE
    /\ ncalls = 0
    /\ InitEngine
    /\ \/ /\ mb = V1_MetaBoard_new
          /\ pc \in {"ask_engine", "ask_opponent"}
       \/ /\ \E s \in MidGame \cup EndedGame : mb = V1_replay(s[1], s[2])
          /\ pc = "ask_engine"

\* Game::start after get_move returned move_: the validity check, the set
\* and the end of the loop.
V1_Game_apply(b, move_) ==
    IF ~V1_is_valid_move(b, move_)
    THEN [board |-> b, move_ |-> move_, pc |-> "invalid"]
    ELSE [board |-> V1_MetaBoard_set(b, move_),
          move_ |-> move_,
          pc |-> IF Len(V1_MetaBoard_get_possible_moves(V1_MetaBoard_set(b, move_))) <= 0
                 THEN "over" ELSE "next"]

\* possible_moves[rng.gen_range(0..possible_moves.len())]
V1_random_pick(possible_moves, seed) ==
    possible_moves[Draw(seed, 0, Len(possible_moves)) + 1]

V1_RandomPlayer_get_move(b, seed) ==
    V1_random_pick(V1_MetaBoard_get_possible_moves(b), seed)

\* The round of Game::start goes on with the player `next`, or ends.
MCApply(a, next) ==
    /\ mb' = a.board
    /\ pc' = IF a.pc = "next" THEN next ELSE a.pc
    /\ ret' = [op |-> "get_move", ok |-> TRUE, val |-> a.move_]

\* One round of Game::start with the RandomPlayer to move.
MCOpponent ==
    /\ impl = "mcts"
    /\ pc = "ask_opponent"
    /\ turns < MaxTurns
    /\ \E seed \in Seeds :
         MCApply(V1_Game_apply(mb, V1_RandomPlayer_get_move(mb, seed)), "ask_engine")
    /\ turns' = turns + 1
    /\ UNCHANGED <<impl, gs, hist, matched, ncalls, tree_head, work, iter, before, bg>>

\* MonteCarlo::get_move up to its loop: the board is the caller's clone.
MCStart ==
    /\ impl = "mcts"
    /\ pc = "ask_engine"
    /\ turns < MaxTurns
    /\ tree_head' = V1_get_move_reroot(tree_head, mb)
    /\ work' = mb
    /\ before' = [tree |-> tree_head', board |-> mb]
    /\ iter' = 0
    /\ pc' = "search"
    /\ turns' = turns + 1
    /\ UNCHANGED <<impl, gs, mb, ret, hist, matched, ncalls, bg>>

\* self.tree_head.select_and_backtrack(meta_board)
MCReturn(r) ==
    /\ tree_head' = r.node
    /\ work' = r.board

\* One iteration of the loop of get_move.
MCIterate ==
    /\ impl = "mcts"
    /\ pc = "search"
    /\ iter < MaxIter
    /\ tree_head.visit_count < MaxVisits
    /\ \E seed \in Seeds : MCReturn(V1_select_and_backtrack(tree_head, work, seed))
    /\ before' = [tree |-> tree_head, board |-> work]
    /\ iter' = iter + 1
    /\ UNCHANGED <<impl, gs, mb, ret, hist, matched, ncalls, pc, turns, bg>>

\* self.tree_head = self.tree_head.children.remove(best_index), and the
\* rest of the round of Game::start.
MCChoose(best_index) ==
    /\ tree_head' = tree_head.children[best_index]
    /\ MCApply(V1_Game_apply(mb, tree_head.children[best_index].move_[1]),
               "ask_opponent")

\* get_move after its loop.
MCFinish ==
    /\ impl = "mcts"
    /\ pc = "search"
    /\ iter = MaxIter
    /\ tree_head.children # <<>>
    /\ \A i \in 1 .. Len(tree_head.children) : tree_head.children[i].visit_count > 0
    /\ MCChoose(V1_max_by(tree_head.children))
    /\ UNCHANGED <<impl, gs, hist, matched, ncalls, work, iter, turns, before, bg>>

\* Mutant: on a root without children get_move returns, without a panic, a
\* default move that Game::start finds invalid.
MCPanic_guess ==
    /\ impl = "mcts"
    /\ pc = "search"
    /\ iter = MaxIter
    /\ tree_head.children = <<>>
    /\ pc' = "invalid"
    /\ UNCHANGED <<impl, gs, mb, ret, hist, matched, ncalls, tree_head, work,
                   iter, turns, before, bg>>

\* get_move after its loop on a root without children: max_by yields None
\* and unwrap panics.
MCPanic ==
    /\ impl = "mcts"
    /\ pc = "search"
    /\ iter = MaxIter
    /\ tree_head.children = <<>>
    /\ pc' = "panicked"
    /\ UNCHANGED <<impl, gs, mb, ret, hist, matched, ncalls, tree_head, work,
                   iter, turns, before, bg>>

NextMC == MCOpponent \/ MCStart \/ MCIterate \/ MCFinish \/ MCPanic

SpecMC == InitMC /\ [][NextMC]_vars

(***************************************************************************)
(* The leaf board on its own, as the unit tests use it: BitBoard::new(),   *)
(* then marks set on free cells by either player, in any order, and the    *)
(* board asked for its empty positions and whether it is full.  `work`     *)
(* holds the board; game.rs and version1.rs keep the same two masks, and   *)
(* get_empty_positions is asked of both.                                   *)
(***************************************************************************)
InitLeaf ==
    /\ impl = "leaf"
    /\ gs = G_GameState_new
    /\ mb = V1_MetaBoard_new
    /\ ret = [op |-> "new", ok |-> TRUE, val |-> "Empty"]
    /\ hist = <<>>
    /\ matched = TRUE
    /\ ncalls = 0
    /\ tree_head = V1_MonteCarlo_new
    /\ work = V1_BitBoard_new
    /\ iter = 0
    /\ turns = 0
    /\ before = [tree |-> V1_MonteCarlo_new, board |-> V1_MetaBoard_new]
    /\ bg = BG_off
    /\ pc = "idle"

\* bitboard.set(player, position) on a free cell.
LeafSet ==
    /\ impl = "leaf"
    /\ \E player \in {"X", "O"} :
         \E position \in Cells \ (work.x \cup work.o) :
            work' = V1_BitBoard_set(work, player, position)
    /\ ret' = [op |-> "set", ok |-> TRUE, val |-> "Empty"]
    /\ UNCHANGED <<impl, gs, mb, hist, matched, ncalls, tree_head, pc, iter,
                   turns, before, bg>>

\* bitboard.get_empty_positions(): version1.rs's vector, and the moves
\* game.rs pushes into an empty PossibleMoves.
LeafGetEmpty ==
    /\ impl = "leaf"
    /\ ret' = [op |-> "get_empty_positions", ok |-> TRUE,
               val |-> [v1 |-> V1_BitBoard_get_empty_positions(work),
                        g |-> G_BitBoard_get_empty_positions(work, <<>>,
                                  G_MetaMove_new_empty)]]
    /\ UNCHANGED <<impl, gs, mb, hist, matched, ncalls, tree_head, work, pc,
                   iter, turns, before, bg>>

\* bitboard.is_full()
LeafIsFull ==
    /\ impl = "leaf"
    /\ ret' = [op |-> "is_full", ok |-> TRUE, val |-> V1_BitBoard_is_full(work)]
    /\ UNCHANGED <<impl, gs, mb, hist, matched, ncalls, tree_head, work, pc,
                   iter, turns, before, bg>>

NextLeaf == LeafSet \/ LeafGetEmpty \/ LeafIsFull

SpecLeaf == InitLeaf /\ [][NextLeaf]_vars

(***************************************************************************)
(* MetaMove of the flat-array implementations on its own, as the unit      *)
(* tests use it: a move is built from a board index and a cell, and        *)
(* shifted; the board index is taken to its path and back.                 *)
(***************************************************************************)
InitShift ==
    /\ impl = "shift"
    /\ gs = G_GameState_new
    /\ mb = V1_MetaBoard_new
    /\ ret = [op |-> "new", ok |-> TRUE, val |-> "Empty"]
    /\ hist = <<>>
    /\ matched = TRUE
    /\ ncalls = 0
    /\ InitEngine
    /\ pc = "idle"

\* version1.rs: MetaMove::from((m, c)).shift_left()
ShiftV1 ==
    /\ impl = "shift"
    /\ \E m \in 0 .. (META_BOARD_SIZE - 1) : \E c \in Cells :
         ret' = [op |-> "shift_left", ok |-> TRUE,
                 val |-> [file |-> "version1.rs",
                          depth |-> META_BOARD_DEPTH,
                          from |-> V1_MetaMove_from(m, c),
                          shifted |-> V1_MetaMove_shift_left(V1_MetaMove_from(m, c)),
                          back |-> V1_absolute_index_to_meta(
                                       V1_meta_to_absolute_index(m))]]
    /\ UNCHANGED <<impl, gs, mb, hist, matched, ncalls, mcVars>>

\* main.rs: MetaMove::from((m, c)).shift_left()
ShiftMain ==
    /\ impl = "shift"
    /\ \E m \in 0 .. (M_META_BOARD_SIZE - 1) : \E c \in Cells :
         ret' = [op |-> "shift_left", ok |-> TRUE,
                 val |-> [file |-> "main.rs",
                          depth |-> M_META_BOARD_DEPTH,
                          from |-> M_MetaMove_from(m, c),
                          shifted |-> M_MetaMove_shift_left(M_MetaMove_from(m, c)),
                          back |-> M_absolute_index_to_meta(
                                       M_meta_to_absolute_index(m))]]
    /\ UNCHANGED <<impl, gs, mb, hist, matched, ncalls, mcVars>>

NextShift == ShiftV1 \/ ShiftMain

SpecShift == InitShift /\ [][NextShift]_vars

(***************************************************************************)
(* The background engine: one worker thread that owns the engine's         *)
(* internal game state (`work`) and searches the shared tree root          *)
(* (`tree_head`), both guarded by one lock, and the calling side, which    *)
(* runs getMove on the external state (`mb`) and talks to the worker over  *)
(* a FIFO channel the worker polls.  `bg` holds the lock, the channel and  *)
(* the worker's position; its fields sent, handled, since, snap and stable *)
(* record the history the properties speak of.  An iteration and the       *)
(* handling of a message each take two steps, the lock held in between,    *)
(* so that the states in their middle exist.  The caller sleeps until the  *)
(* worker has taken what was sent; iterations are select_and_backtrack of  *)
(* version1.rs on the tree, the internal state undone after each.          *)
(***************************************************************************)
BG_Msg(type, move) == [type |-> type, move |-> move]

BG_send(b, msg) ==
    [b EXCEPT !.chan = Append(@, msg), !.sent = Append(@, msg)]

\* Mutant: tree reuse always starts a new root.
BG_reroot_fresh(tree, move) == V1_GameTreeKnot(<<move>>)

\* Tree reuse: the root's child whose locator equals the move becomes the
\* root, with its statistics; a new root tagged with the move otherwise.
BG_reroot(tree, move) ==
    IF V1_find_child(tree.children, move) = 0
    THEN V1_GameTreeKnot(<<move>>)
    ELSE tree.children[V1_find_child(tree.children, move)]

\* Best-move selection: the first child of strictly highest score per
\* visit among the visited ones; 0 when no child has been visited.
BG_best(children) ==
    IF \A i \in 1 .. Len(children) : children[i].visit_count = 0 THEN 0
    ELSE CHOOSE i \in 1 .. Len(children) :
            /\ children[i].visit_count > 0
            /\ \A k \in 1 .. Len(children) :
                  children[k].visit_count > 0 =>
                     IF k < i
                     THEN children[i].score2 * children[k].visit_count
                            > children[k].score2 * children[i].visit_count
                     ELSE children[i].score2 * children[k].visit_count
                            >= children[k].score2 * children[i].visit_count

\* The games in progress the engine is started on.
BGGames == {<<ScriptDraw, 42>>, <<ScriptXWins, 24>>}

InitBG ==
    /\ impl = "background"
    /\ gs = G_GameState_new
    /\ hist = <<>>
    /\ matched = TRUE
    /\ ncalls = 0
    /\ \E s \in BGGames : mb = V1_replay(s[1], s[2])
    /\ ret = [op |-> "get_move", ok |-> TRUE, val |-> mb.last_move[1]]
    /\ work = mb
    /\ tree_head = V1_GameTreeKnot(mb.last_move)
    /\ before = [tree |-> tree_head, board |-> mb]
    /\ iter = 0
    /\ turns = 0
    /\ pc = "idle"
    /\ bg = [lock |-> "free", chan |-> <<>>, sent |-> <<>>, handled |-> <<>>,
             wpc |-> "poll", last |-> FALSE, cur |-> <<>>, since |-> 0,
             snap |-> [tree |-> tree_head, board |-> mb],
             stable |-> [tree |-> tree_head, board |-> mb],
             known |-> mb.last_move, best |-> <<>>]

\* getMove: if the external state records a new last move, send AdvanceMove.
BGAdvance ==
    /\ impl = "background"
    /\ pc = "idle"
    /\ turns < MaxTurns
    /\ bg' = IF mb.last_move # bg.known
             THEN [BG_send(bg, BG_Msg("AdvanceMove", mb.last_move))
                      EXCEPT !.known = mb.last_move]
             ELSE bg
    /\ pc' = "think"
    /\ turns' = turns + 1
    /\ UNCHANGED <<impl, gs, mb, ret, hist, matched, ncalls, tree_head, work,
                   iter, before>>

\* getMove: the think time is over, the worker has polled what was sent;
\* send Pause.
BGPause ==
    /\ impl = "background"
    /\ pc = "think"
    /\ bg.chan = <<>> /\ bg.wpc # "handling"
    /\ bg' = BG_send(bg, BG_Msg("Pause", <<>>))
    /\ pc' = "lock"
    /\ UNCHANGED <<impl, gs, mb, ret, hist, matched, ncalls, tree_head, work,
                   iter, turns, before>>

\* Mutant: the caller goes on to read without the lock.
BGLock_unguarded ==
    /\ impl = "background"
    /\ pc = "lock"
    /\ bg' = [bg EXCEPT !.lock = "caller"]
    /\ pc' = "read"
    /\ UNCHANGED <<impl, gs, mb, ret, hist, matched, ncalls, tree_head, work,
                   iter, turns, before>>

\* getMove: take the lock.
BGLock ==
    /\ impl = "background"
    /\ pc = "lock"
    /\ bg.lock = "free"
    /\ bg' = [bg EXCEPT !.lock = "caller"]
    /\ pc' = "read"
    /\ UNCHANGED <<impl, gs, mb, ret, hist, matched, ncalls, tree_head, work,
                   iter, turns, before>>

\* getMove: read the best child and release the lock; with no explored
\* child the engine fails.
BGRead ==
    /\ impl = "background"
    /\ pc = "read"
    /\ IF BG_best(tree_head.children) = 0
       THEN /\ pc' = "failed"
            /\ bg' = [bg EXCEPT !.lock = "free"]
       ELSE /\ pc' = "resume"
            /\ bg' = [bg EXCEPT !.lock = "free",
                                !.best = tree_head.children[
                                            BG_best(tree_head.children)].move_]
    /\ UNCHANGED <<impl, gs, mb, ret, hist, matched, ncalls, tree_head, work,
                   iter, turns, before>>

\* getMove: send Resume.
BGResume ==
    /\ impl = "background"
    /\ pc = "resume"
    /\ bg' = BG_send(bg, BG_Msg("Resume", <<>>))
    /\ pc' = "sync"
    /\ UNCHANGED <<impl, gs, mb, ret, hist, matched, ncalls, tree_head, work,
                   iter, turns, before>>

\* getMove: send AdvanceMove(bestMove) and return bestMove, which the game
\* sets on the external state.
BGSync ==
    /\ impl = "background"
    /\ pc = "sync"
    /\ bg' = [BG_send(bg, BG_Msg("AdvanceMove", bg.best)) EXCEPT !.known = bg.best]
    /\ MCApply(V1_Game_apply(mb, bg.best[1]), "opponent")
    /\ UNCHANGED <<impl, gs, hist, matched, ncalls, tree_head, work, iter,
                   turns, before>>

\* The other player moves on the external state.
BGOpponent ==
    /\ impl = "background"
    /\ pc = "opponent"
    /\ turns < MaxTurns
    /\ \E seed \in Seeds :
         MCApply(V1_Game_apply(mb, V1_RandomPlayer_get_move(mb, seed)), "idle")
    /\ turns' = turns + 1
    /\ UNCHANGED <<impl, gs, hist, matched, ncalls, tree_head, work, iter,
                   before, bg>>

\* The worker polls, finds a message and takes the lock to handle it;
\* AdvanceMove applies its move to the internal state.
BGPoll ==
    /\ impl = "background"
    /\ bg.wpc = "poll" /\ ~bg.last
    /\ bg.chan # <<>>
    /\ bg.lock = "free"
    /\ bg' = [bg EXCEPT !.lock = "worker", !.wpc = "handling",
                        !.chan = Tail(@), !.cur = <<Head(bg.chan)>>,
                        !.handled = Append(@, Head(bg.chan))]
    /\ work' = IF Head(bg.chan).type = "AdvanceMove"
               THEN V1_MetaBoard_set(work, Head(bg.chan).move[1])
               ELSE work
    /\ UNCHANGED <<impl, gs, mb, ret, hist, matched, ncalls, tree_head, pc,
                   iter, turns, before>>

\* The rest of the handling, and the lock released: AdvanceMove re-roots
\* the tree, Pause leaves one more iteration to do.
BGHandle ==
    /\ impl = "background"
    /\ bg.wpc = "handling"
    /\ tree_head' = IF bg.cur[1].type = "AdvanceMove"
                    THEN BG_reroot(tree_head, bg.cur[1].move[1])
                    ELSE tree_head
    /\ bg' = [bg EXCEPT !.lock = "free", !.wpc = "poll", !.cur = <<>>,
                        !.last = (bg.cur[1].type = "Pause"),
                        !.since = IF bg.cur[1].type = "Pause" THEN 0 ELSE @,
                        !.snap = IF bg.cur[1].type = "Pause"
                                 THEN [tree |-> tree_head, board |-> work]
                                 ELSE @,
                        !.stable = [tree |-> tree_head', board |-> work]]
    /\ UNCHANGED <<impl, gs, mb, ret, hist, matched, ncalls, work, pc, iter,
                   turns, before>>

\* The worker finds no message, or has one more iteration to do: it takes
\* the lock and begins select_and_backtrack on the root.
BGIterBegin ==
    /\ impl = "background"
    /\ bg.wpc = "poll"
    /\ bg.last \/ bg.chan = <<>>
    /\ bg.lock = "free"
    /\ iter < MaxIter
    /\ before' = [tree |-> tree_head, board |-> work]
    /\ tree_head' = [tree_head EXCEPT !.visit_count = @ + 1]
    /\ bg' = [bg EXCEPT !.lock = "worker", !.wpc = "iterating"]
    /\ UNCHANGED <<impl, gs, mb, ret, hist, matched, ncalls, work, pc, iter,
                   turns>>

\* Mutant: the worker goes back to its loop after the iteration that
\* follows a Pause.
BGIterEnd_running ==
    /\ impl = "background"
    /\ bg.wpc = "iterating"
    /\ \E seed \in Seeds :
         tree_head' = V1_select_and_backtrack(before.tree, work, seed).node
    /\ iter' = iter + 1
    /\ bg' = [bg EXCEPT !.lock = "free",
                        !.wpc = "poll",
                        !.last = FALSE,
                        !.since = @ + 1,
                        !.stable = [tree |-> tree_head', board |-> work]]
    /\ UNCHANGED <<impl, gs, mb, ret, hist, matched, ncalls, work, pc, turns,
                   before>>

\* The iteration is done and the lock released; after a Pause the worker
\* stops here until resumed.
BGIterEnd ==
    /\ impl = "background"
    /\ bg.wpc = "iterating"
    /\ \E seed \in Seeds :
         tree_head' = V1_select_and_backtrack(before.tree, work, seed).node
    /\ iter' = iter + 1
    /\ bg' = [bg EXCEPT !.lock = "free",
                        !.wpc = IF bg.last THEN "paused" ELSE "poll",
                        !.last = FALSE,
                        !.since = @ + 1,
                        !.stable = [tree |-> tree_head', board |-> work]]
    /\ UNCHANGED <<impl, gs, mb, ret, hist, matched, ncalls, work, pc, turns,
                   before>>

\* The paused worker receives Resume, takes the lock again and goes back
\* to its loop.
BGWake ==
    /\ impl = "background"
    /\ bg.wpc = "paused"
    /\ bg.chan # <<>> /\ Head(bg.chan).type = "Resume"
    /\ bg.lock = "free"
    /\ bg' = [bg EXCEPT !.wpc = "poll", !.chan = Tail(@),
                        !.handled = Append(@, Head(bg.chan))]
    /\ UNCHANGED <<impl, gs, mb, ret, hist, matched, ncalls, tree_head, work,
                   pc, iter, turns, before>>

\* The steps by which the worker's loop goes on: take a message, finish
\* handling it, begin an iteration, wake up on Resume.
BGWorker == BGPoll \/ BGHandle \/ BGIterBegin \/ BGWake

NextBG ==
    \/ BGAdvance \/ BGPause \/ BGLock \/ BGRead \/ BGResume \/ BGSync
    \/ BGOpponent
    \/ BGPoll \/ BGHandle \/ BGIterBegin \/ BGIterEnd \/ BGWake

\* The worker's loop goes on whenever it can, and the caller leaves its
\* critical section.
SpecBG == InitBG /\ [][NextBG]_vars /\ WF_bg(BGWorker) /\ WF_pc(BGRead)

(***************************************************************************)
(* Properties.                                                             *)
(***************************************************************************)
G_leaf(s, a) == s.board.sub_boards[a]

Occupied(b) == b.x \cup b.o

HasLine(mask) == \E k \in 1 .. Len(WINNING_POSITIONS) : WINNING_POSITIONS[k] \subseteq mask

Decided(b) == HasLine(b.x) \/ HasLine(b.o)

\* A leaf board that still accepts a move: no line on it and a free cell.
Open(b) == ~Decided(b) /\ Occupied(b) # Cells

G_paths(moves) == {G_path(m) : m \in Range(moves)}

V1_paths(moves) == {V1_path(m) : m \in Range(moves)}

HistPaths ==
    [i \in 1 .. Len(hist) |->
        IF impl = "version1" THEN V1_path(hist[i]) ELSE G_path(hist[i])]

\* The root summary of version1.rs, which keeps none: the leaf boards won.
V1_root == [x |-> {a \in Cells : HasLine(mb.boards[a].x)},
            o |-> {a \in Cells : HasLine(mb.boards[a].o) /\ ~HasLine(mb.boards[a].x)}]

\* C1: for every legal move m of a state reached by legal play, set(m)
\* followed by unset(p), p the state's last_move, gives back the state: every
\* leaf mask, every summary mask, current_player and last_move (game.rs
\* GameState, version1.rs MetaBoard).
C1_RoundTrip ==
    /\ \A m \in Range(G_moves(gs)) :
         G_GameState_unset(G_GameState_set(gs, m).s, gs.last_move) = gs
    /\ \A m \in Range(V1_moves(mb)) :
         V1_MetaBoard_unset(V1_MetaBoard_set(mb, m), mb.last_move) = mb

\* A move was just taken back, and a legal move of the state decides a leaf
\* board, so that its round trip writes and clears a summary cell.
C1_Witness ==
    /\ impl = "game"
    /\ ret.op = "unset"
    /\ gs.last_move # <<>>
    /\ \E m \in Range(G_moves(gs)) :
         G_GameState_set(gs, m).s.board.board # gs.board.board

\* C2: in game.rs at depth 2, in every state reached by legal moves, if the
\* root summary has no winner and some leaf board is undecided and not full,
\* get_possible_moves lists at least one move.
C2_NonEmpty ==
    (/\ impl = "game"
     /\ ~Decided(gs.board.board)
     /\ \E a \in Cells : Open(G_leaf(gs, a)))
    => G_moves(gs) # <<>>

\* C3: after a move [a0, a1], if the root is undecided and leaf board a1 is
\* undecided and not full, the legal moves are exactly the empty cells of
\* leaf board a1, each listed once; after [8,3] on the empty board the nine
\* cells of board 3, after [8,8] the eight remaining cells of board 8.
C3_Forwarding ==
    /\ (gs.last_move # <<>>) =>
         LET p == gs.last_move[1].absolute_index
             t == p[Len(p)]
             moves == G_moves(gs)
         IN  (~Decided(gs.board.board) /\ Open(G_leaf(gs, t))) =>
                /\ G_paths(moves) = {<<t, c>> : c \in Cells \ Occupied(G_leaf(gs, t))}
                /\ Len(moves) = Cardinality(G_paths(moves))
    /\ (mb.last_move # <<>>) =>
         LET t == mb.last_move[1].board_index
             moves == V1_moves(mb)
         IN  (~Decided(V1_root) /\ Open(mb.boards[t])) =>
                /\ V1_paths(moves) = {<<t, c>> : c \in Cells \ Occupied(mb.boards[t])}
                /\ Len(moves) = Cardinality(V1_paths(moves))
    /\ (HistPaths = << <<8, 3>> >>) =>
         /\ impl = "game" => G_paths(G_moves(gs)) = {<<3, c>> : c \in Cells}
         /\ impl = "version1" => V1_paths(V1_moves(mb)) = {<<3, c>> : c \in Cells}
    /\ (HistPaths = << <<8, 8>> >>) =>
         /\ impl = "game" => G_paths(G_moves(gs)) = {<<8, c>> : c \in 0 .. 7}
         /\ impl = "version1" => V1_paths(V1_moves(mb)) = {<<8, c>> : c \in 0 .. 7}

\* The first move was [8,8] and eight moves are listed.
C3_Witness ==
    /\ impl = "game"
    /\ HistPaths = << <<8, 8>> >>
    /\ Len(G_moves(gs)) = 8

\* The empty cells of every leaf board that still accepts a move.
G_all_open(s) ==
    {<<a, c>> : a \in {a \in Cells : Open(G_leaf(s, a))}, c \in Cells}
    \ {<<a, c>> \in Cells \X Cells : c \in Occupied(G_leaf(s, a))}

V1_all_open(b) ==
    {<<a, c>> : a \in {a \in Cells : Open(b.boards[a])}, c \in Cells}
    \ {<<a, c>> \in Cells \X Cells : c \in Occupied(b.boards[a])}

\* C4: if the forwarded leaf board is decided or full (root undecided), the
\* legal moves are the empty cells of all leaf boards that still accept a
\* move (game.rs at depth 2, version1.rs).
C4_Game ==
    (gs.last_move # <<>>) =>
        LET p == gs.last_move[1].absolute_index
            t == p[Len(p)]
        IN  (~Decided(gs.board.board) /\ ~Open(G_leaf(gs, t))) =>
                G_paths(G_moves(gs)) = G_all_open(gs)

C4_V1 ==
    (mb.last_move # <<>>) =>
        LET t == mb.last_move[1].board_index
        IN  (~Decided(V1_root) /\ ~Open(mb.boards[t])) =>
                V1_paths(V1_moves(mb)) = V1_all_open(mb)

C4_Fallback == C4_Game /\ C4_V1

\* C5: if the root board has a winner, or no leaf board accepts a move any
\* more, get_possible_moves is empty, whatever cells are still empty
\* (game.rs GameState, version1.rs MetaBoard).
C5_Terminal ==
    /\ (Decided(gs.board.board) \/ \A a \in Cells : ~Open(G_leaf(gs, a)))
         => G_moves(gs) = <<>>
    /\ (Decided(V1_root) \/ \A a \in Cells : ~Open(mb.boards[a]))
         => V1_moves(mb) = <<>>

\* The root board is won while an undecided leaf board has empty cells.
C5_Witness ==
    /\ impl = "game"
    /\ Decided(gs.board.board)
    /\ \E a \in Cells : Open(G_leaf(gs, a))

\* C6: in game.rs, after any successful sets and unsets given the true
\* previous move, for every composed board and child i, summary cell i holds
\* marker M iff child i's get_winner() is M; so the set that completes a
\* line in a leaf has written the marker into the summary when it returns.
RECURSIVE G_SummaryConsistent(_)
G_SummaryConsistent(b) ==
    IsMetaBoard(b) =>
        \A i \in Cells :
            /\ (i \in b.board.x) <=> (G_Board_get_winner(b.sub_boards[i]) = "X")
            /\ (i \in b.board.o) <=> (G_Board_get_winner(b.sub_boards[i]) = "O")
            /\ G_SummaryConsistent(b.sub_boards[i])

C6_Summary == matched => G_SummaryConsistent(gs.board)

\* The last call was a set that completed a line in a leaf board.
C6_Witness ==
    /\ matched
    /\ ret.op = "set" /\ ret.ok
    /\ gs.last_move # <<>>
    /\ Decided(G_leaf(gs, gs.last_move[1].absolute_index[1]))
    /\ Occupied(gs.board.board) # {}

\* C7: in game.rs, after any sets and unsets (failed ones and unsets with a
\* wrong previous move included), the X mask and the O mask of every leaf
\* and of every summary have no bit in common.
RECURSIVE G_Disjoint(_)
G_Disjoint(b) ==
    IF IsMetaBoard(b)
    THEN (b.board.x \cap b.board.o = {}) /\ \A i \in Cells : G_Disjoint(b.sub_boards[i])
    ELSE b.x \cap b.o = {}

C7_Disjoint == G_Disjoint(gs.board)

\* A set of an occupied cell was refused after an unset with a wrong
\* previous move, on a board with both markers in the summary's children.
C7_Witness ==
    /\ ~matched
    /\ ret.op = "set" /\ ~ret.ok
    /\ \E a \in Cells : G_leaf(gs, a).x # {} /\ G_leaf(gs, a).o # {}

\* C8: in game.rs, set(m) of a cell that holds X or O returns an error and
\* leaves every mask, current_player and last_move as they were.
AllPaths == {<<a, c>> : a \in Cells, c \in Cells}

C8_Occupied ==
    \A p \in AllPaths :
        G_Board_get(gs.board, p) # "Empty" =>
            LET r == G_GameState_set(gs, G_MetaMove_new(p))
            IN  ~r.ok /\ r.s = gs

\* The last call was a set refused because the cell was taken.
C8_Witness ==
    /\ ret.op = "set" /\ ~ret.ok
    /\ ret.val = "Move was already played"
    /\ gs.last_move # <<>>

\* The updates one iteration made to the tree, pair by pair: a child whose
\* visit_count changed, and its parent.
RECURSIVE FlipOK(_, _)
FlipOK(old, new) ==
    \A i \in 1 .. Len(new.children) :
        LET cn == new.children[i]
            co == IF old.children = <<>> THEN V1_GameTreeKnot(cn.move_)
                  ELSE old.children[i]
        IN  cn.visit_count # co.visit_count =>
              /\ new.score2 - old.score2 = 2 - (cn.score2 - co.score2)
              /\ FlipOK(co, cn)

\* C9: when select_and_backtrack returns to get_move, the board's leaf
\* masks, current_player and last_move are what they were when it was called.
C9_BoardRestored ==
    (pc = "search" /\ iter > 0) => work = before.board

\* C10: in every iteration, for every parent and child both updated, the
\* amount added to the parent's score is 1 minus the amount added to the
\* child's score.
C10_Flip ==
    (pc = "search" /\ iter > 0) => FlipOK(before.tree, tree_head)

\* score / visit_count of child i against child k, over the common
\* denominator.
RatioGt(c, i, k) ==
    c[i].score2 * c[k].visit_count > c[k].score2 * c[i].visit_count

\* The visited child of the highest ratio, of several the first created.
FirstBest(c) ==
    CHOOSE i \in 1 .. Len(c) :
        /\ c[i].visit_count > 0
        /\ \A k \in 1 .. Len(c) :
             c[k].visit_count > 0 =>
                /\ ~RatioGt(c, k, i)
                /\ k < i => RatioGt(c, i, k)

\* get_move returns in this step.
MCReturns == pc = "search" /\ pc' \notin {"search", "panicked"}

\* C11: the move get_move returns is the move of the visited root child of
\* the highest score / visit_count, of several such children the first
\* created.
C11_FirstBest ==
    [][MCReturns => ret'.val = tree_head.children[FirstBest(tree_head.children)].move_[1]]_vars

\* get_move is entered in this step.
MCEnters == pc = "ask_engine" /\ pc' = "search"

\* The children whose move is m.
Matching(c, m) ==
    {i \in 1 .. Len(c) : c[i].move_ # <<>> /\ V1_MetaMove_eq(c[i].move_[1], m)}

\* C12: when the root has a child whose move is the move played (the board's
\* last move when get_move is entered, the returned move when it returns),
\* that child, with its score, visit_count and subtree, is the new root.
C12_Reuse ==
    [][/\ (MCEnters /\ mb.last_move # <<>>
             /\ Matching(tree_head.children, mb.last_move[1]) # {})
          => \E i \in Matching(tree_head.children, mb.last_move[1]) :
                tree_head' = tree_head.children[i]
       /\ MCReturns
          => \E i \in Matching(tree_head.children, ret'.val) :
                tree_head' = tree_head.children[i]]_vars

\* get_move was entered with a root that had a visited child for the
\* opponent's move: that child is the root the search starts on.
C12_Witness ==
    /\ pc = "search" /\ iter = 0
    /\ mb.last_move # <<>> /\ tree_head.move_ # <<>>
    /\ V1_MetaMove_eq(tree_head.move_[1], mb.last_move[1])
    /\ tree_head.visit_count > 0

\* C13: when get_move is entered with a board that has a last move and no
\* root child has that move, the search starts on a new root: that move, no
\* children, score 0 and visit_count 0.
C13_FreshRoot ==
    [][(MCEnters /\ mb.last_move # <<>>
          /\ Matching(tree_head.children, mb.last_move[1]) = {})
       => tree_head' = V1_GameTreeKnot(mb.last_move)]_vars

\* The child of `old` one iteration went into: the one whose visit_count
\* changed.
Descended(old, new) ==
    CHOOSE i \in 1 .. Len(new.children) :
        new.children[i].visit_count # old.children[i].visit_count

\* Along the path of one iteration: a node that had an unvisited child was
\* left for its first unvisited child.
RECURSIVE DescentOK(_, _)
DescentOK(old, new) ==
    old.children # <<>> =>
        LET i == Descended(old, new) IN
        /\ (\E k \in 1 .. Len(old.children) : old.children[k].visit_count = 0)
              => /\ old.children[i].visit_count = 0
                 /\ \A k \in 1 .. (i - 1) : old.children[k].visit_count > 0
        /\ DescentOK(old.children[i], new.children[i])

\* No node has a child visited twice beside a child never visited.
RECURSIVE NoSecondVisit(_)
NoSecondVisit(node) ==
    /\ (\E k \in 1 .. Len(node.children) : node.children[k].visit_count = 0)
          => \A k \in 1 .. Len(node.children) : node.children[k].visit_count <= 1
    /\ \A k \in 1 .. Len(node.children) : NoSecondVisit(node.children[k])

\* C14: select_and_backtrack on a node with children, one of them unvisited,
\* descends into the first unvisited child; no child is visited a second
\* time before each of its siblings was visited once.
C14_UnvisitedFirst ==
    (pc = "search" /\ iter > 0) =>
        /\ DescentOK(before.tree, tree_head)
        /\ NoSecondVisit(tree_head)

\* The last iteration selected among the children of a root that had
\* visited and unvisited ones.
C14_Witness ==
    /\ pc = "search" /\ iter > 1
    /\ \E k \in 1 .. Len(before.tree.children) : before.tree.children[k].visit_count = 0
    /\ \E k \in 1 .. Len(before.tree.children) : before.tree.children[k].visit_count > 0
    /\ before.tree.visit_count < tree_head.visit_count

\* The value, doubled, that a position without moves is worth to its player
\* to move: 1 for the winner of the root board, 0.5 without one, else 0.
TerminalValue2(board) ==
    IF V1_MetaBoard_get_winner(board, <<>>) = "None" THEN 1
    ELSE IF V1_MetaBoard_get_winner(board, <<>>) = board.current_player THEN 2
    ELSE 0

\* The node one iteration ended at, if its position has no moves: it got no
\* children and its score grew by the value of the position.
RECURSIVE TerminalOK(_, _, _)
TerminalOK(old, new, board) ==
    IF old.children = <<>>
    THEN V1_MetaBoard_get_possible_moves(board) = <<>> =>
            /\ new.children = <<>>
            /\ new.score2 - old.score2 = TerminalValue2(board)
    ELSE TerminalOK(old.children[Descended(old, new)],
                    new.children[Descended(old, new)],
                    V1_MetaBoard_set(board, old.children[Descended(old, new)].move_[1]))

\* C15: expand_and_playout on a position without legal moves returns 0.5 if
\* the root board has no winner, 1 if its winner is the position's player to
\* move, 0 otherwise, and creates no children.
C15_TerminalScore ==
    (pc = "search" /\ iter > 0) => TerminalOK(before.tree, tree_head, before.board)

\* The winner of the root board of a version1.rs board: the player with a
\* line of won leaf boards.
RootWinner(b) ==
    IF HasLine({a \in Cells : HasLine(b.boards[a].x)}) THEN "X"
    ELSE IF HasLine({a \in Cells : HasLine(b.boards[a].o)}) THEN "O"
    ELSE "None"

\* `final` is a finished game that continues `start`.
PlayedOut(start, final) ==
    /\ V1_MetaBoard_get_possible_moves(final) = <<>>
    /\ \A a \in Cells : /\ start.boards[a].x \subseteq final.boards[a].x
                        /\ start.boards[a].o \subseteq final.boards[a].o

\* Child i of a node expanded at `board` is as playout leaves it when the
\* game it played ended in `final`: one visit, and the score of that game
\* for the player who made the child's move.
PlayoutOf(child, board, final) ==
    /\ PlayedOut(V1_MetaBoard_set(board, child.move_[1]), final)
    /\ child.visit_count = 1
    /\ child.children = <<>>
    /\ child.score2 = (IF RootWinner(final) = "None" THEN 1
                       ELSE IF RootWinner(final) = board.current_player THEN 2
                       ELSE 0)

\* The node one iteration expanded, at a position with moves: one new child
\* went through playout, for some stream of random numbers; the others are
\* as created, and the node's score grew by what playout returned.
RECURSIVE PlayoutOK(_, _, _)
PlayoutOK(old, new, board) ==
    IF old.children = <<>>
    THEN V1_MetaBoard_get_possible_moves(board) # <<>> =>
            \E i \in 1 .. Len(new.children) :
                /\ \E seed \in Seeds :
                      PlayoutOf(new.children[i], board,
                          V1_playout_loop(
                              V1_MetaBoard_set(board, new.children[i].move_[1]),
                              seed, 1))
                /\ new.score2 - old.score2 = new.children[i].score2
                /\ \A k \in 1 .. Len(new.children) :
                      k # i => new.children[k] = V1_GameTreeKnot(new.children[k].move_)
    ELSE PlayoutOK(old.children[Descended(old, new)],
                   new.children[Descended(old, new)],
                   V1_MetaBoard_set(board, old.children[Descended(old, new)].move_[1]))

\* C16: playout on a node applies the node's move, then legal moves until
\* none remain, and returns 1 if the root winner is the player who made the
\* node's move, 0.5 without a winner, 0 otherwise; the node's visit_count
\* grows by 1 and its score by the returned value; no other node changes.
C16_Playout ==
    (pc = "search" /\ iter > 0) => PlayoutOK(before.tree, tree_head, before.board)

\* The last iteration expanded a node below the root and played a game out
\* that the player of the new child's move won.
C16_Witness ==
    /\ pc = "search" /\ iter > 1
    /\ \E k \in 1 .. Len(tree_head.children) :
          /\ before.tree.children[k].children = <<>>
          /\ \E i \in 1 .. Len(tree_head.children[k].children) :
                /\ tree_head.children[k].children[i].visit_count = 1
                /\ tree_head.children[k].children[i].score2 = 2

\* A step of the loop of get_move.
MCLoops == pc = "search" /\ pc' = "search" /\ tree_head' # tree_head

\* C17: one get_move call runs select_and_backtrack on the root exactly N
\* times (MaxIter stands for the 20000 of the source): every iteration adds
\* one visit to the root, the call returns after the N-th and not before,
\* and the caller's board is untouched by the call: the move it returns is
\* applied to the board the caller had.
C17_ExactlyN ==
    [][/\ MCEnters => (iter' = 0 /\ mb' = mb)
       /\ MCLoops => /\ iter < MaxIter
                     /\ iter' = iter + 1
                     /\ tree_head'.visit_count = tree_head.visit_count + 1
                     /\ mb' = mb
       /\ MCReturns => /\ iter = MaxIter
                       /\ mb' = V1_MetaBoard_set(mb, ret'.val)]_vars

\* The loop of a call on a re-rooted tree, whose root came with visits of
\* the call before, has run N times.
C17_Witness ==
    /\ pc = "search" /\ iter = MaxIter
    /\ tree_head.move_ # <<>>
    /\ tree_head.visit_count > MaxIter

\* C18: on a newly created game the legal moves are one per cell, all
\* distinct: 9^META_DEPTH for GameState::new() in game.rs, and 9 * 9 for
\* MetaBoard::new() in version1.rs.
C18_FreshBoard ==
    ret.op = "new" =>
        /\ gs = G_GameState_new
        /\ Len(G_moves(gs)) = Pow(BOARD_SIZE_SQUARED, META_DEPTH)
        /\ {G_path(m) : m \in Range(G_moves(gs))} = [1 .. META_DEPTH -> Cells]
        /\ impl # "mcts" =>
              /\ mb = V1_MetaBoard_new
              /\ Len(V1_moves(mb)) = BOARD_SIZE_SQUARED * BOARD_SIZE_SQUARED
              /\ {V1_path(m) : m \in Range(V1_moves(mb))}
                    = [1 .. META_BOARD_DEPTH + 1 -> Cells]

\* Both games as created, no move played, each with moves to list.
C18_Witness ==
    /\ ret.op = "new" /\ hist = <<>>
    /\ gs = G_GameState_new /\ gs.last_move = <<>>
    /\ mb = V1_MetaBoard_new /\ mb.last_move = <<>>
    /\ G_moves(gs) # <<>> /\ V1_moves(mb) # <<>>

\* The MetaMove values at hand in a state of game.rs: the moves
\* get_possible_moves lists, MetaMove::new on their paths, and last_move.
G_Locators ==
    Range(G_moves(gs)) \cup {G_MetaMove_new(G_path(m)) : m \in Range(G_moves(gs))}
                       \cup Range(gs.last_move)

\* C19: in game.rs two MetaMove values compare equal (==) if and only if
\* all their path components are equal; in particular a move listed by
\* get_possible_moves equals MetaMove::new of the same path, and the same
\* move stored as last_move.
C19_LocatorEq ==
    impl = "game" =>
        \A a \in G_Locators : \A b \in G_Locators :
            G_MetaMove_eq(a, b) <=> G_path(a) = G_path(b)

\* Path p comes before path q in lexicographic order.
LexLess(p, q) ==
    \E k \in 1 .. Len(p) : /\ p[k] < q[k]
                           /\ \A j \in 1 .. k - 1 : p[j] = q[j]

\* Buffers a caller may hand in for next_move: fresh, or left over from
\* other uses, with any path components and any fill level.
StaleMoves ==
    {G_MetaMove_new_empty,
     [absolute_index |-> [i \in 1 .. META_DEPTH |-> BOARD_SIZE_SQUARED - 1], index |-> 0],
     [absolute_index |-> [i \in 1 .. META_DEPTH |-> i], index |-> 1],
     [absolute_index |-> [i \in 1 .. META_DEPTH |-> BOARD_SIZE + i], index |-> META_DEPTH]}

\* C20: GameState.get_possible_moves of game.rs lists the moves in strictly
\* increasing lexicographic order of their paths, hence without duplicates,
\* and the sequence is the same whatever the output buffers held before.
C20_ListingOrder ==
    impl = "game" =>
        /\ \A i \in 1 .. Len(G_moves(gs)) : \A j \in 1 .. Len(G_moves(gs)) :
              i < j => LexLess(G_path(G_moves(gs)[i]), G_path(G_moves(gs)[j]))
        /\ \A nm \in StaleMoves :
              G_GameState_get_possible_moves(gs, nm) = G_moves(gs)

\* Moves were played, the last one sends the player to a decided board, and
\* the listing runs over several sub-boards.
C20_Witness ==
    /\ impl = "game"
    /\ gs.last_move # <<>>
    /\ Len(hist) > 1
    /\ Len(G_moves(gs)) > BOARD_SIZE_SQUARED

\* The messages of the InvalidMoveError values game.rs builds.
InvalidMoveErrors ==
    {"Move was already played", "Index is too short", "Board is already won",
     "Index is empty", "Invalid Index"}

\* C21: a move submitted with a path of a length other than META_DEPTH is
\* reported to the caller as an InvalidMoveError value, not a panic, and the
\* caller can go on with another move.
C21_WrongLength ==
    ret.op = "new_move" => /\ ret.val \in InvalidMoveErrors
                           /\ pc = "idle"

\* No child of the node has been visited; so of a node without children.
NoneExplored(node) ==
    \A i \in 1 .. Len(node.children) : node.children[i].visit_count = 0

\* C22: when get_move of version1.rs reaches its best-move selection on a
\* root without children, or without a visited child, it panics: no move is
\* returned and the game's board is not played on.
C22_NoGuess ==
    [][(pc = "search" /\ iter = MaxIter /\ NoneExplored(tree_head))
          => (pc' = "panicked" /\ mb' = mb /\ ret' = ret)]_vars

\* get_move was called on a finished game, ran its iterations on a root
\* that stayed without children, and panicked.
C22_Witness ==
    /\ impl = "mcts" /\ pc = "panicked"
    /\ V1_moves(mb) = <<>>
    /\ tree_head.children = <<>>
    /\ tree_head.visit_count = MaxIter

\* s lists the members of the set S of numbers in ascending order.
AscendingListOf(s, S) ==
    /\ Len(s) = Cardinality(S)
    /\ Range(s) = S
    /\ \A i \in 1 .. Len(s) : \A j \in 1 .. Len(s) : i < j => s[i] < s[j]

\* The cells the moves of game.rs's leaf listing name.
G_listed(moves) == [k \in 1 .. Len(moves) |-> moves[k].absolute_index[1]]

FilledByX(b, i) == b.o = {} /\ b.x = 0 .. (i - 1)

\* C24: on a leaf where X has set exactly the cells 0 .. i - 1,
\* get_empty_positions returns [i, ..., 8], for every i from 0 to 8, and
\* the empty list once all 9 cells are set, as test_bitboard_positions
\* asserts.
C24_OneSidedFill ==
    ret.op = "get_empty_positions" =>
        \A i \in 0 .. BOARD_SIZE_SQUARED :
            FilledByX(work, i) =>
                ret.val.v1 = [k \in 1 .. (BOARD_SIZE_SQUARED - i) |-> i + k - 1]

\* The index of the sub-board whose path is the path of board m with its
\* first component dropped and the cell c appended, at depth D.
ShiftedIndex(m, c, D) ==
    (m % Pow(BOARD_SIZE_SQUARED, D - 1)) * BOARD_SIZE_SQUARED + c

\* C25: in main.rs (depth 2) and version1.rs (depth 1), for every move
\* built with MetaMove::from((m, c)), shift_left() equals
\* MetaMove::from((m2, 0)) with m2 = (m mod 9^(D-1)) * 9 + c, and
\* absolute_index_to_meta(meta_to_absolute_index(m)) = m.
C25_ShiftedPath ==
    ret.op = "shift_left" =>
        /\ ret.val.back = ret.val.from.meta_index
        /\ IF ret.val.file = "main.rs"
           THEN M_MetaMove_eq(ret.val.shifted,
                    M_MetaMove_from(ShiftedIndex(ret.val.from.meta_index,
                        ret.val.from.board_index, ret.val.depth), 0))
           ELSE V1_MetaMove_eq(ret.val.shifted,
                    V1_MetaMove_from(ShiftedIndex(ret.val.from.meta_index,
                        ret.val.from.board_index, ret.val.depth), 0))

\* C26: is_full() is true if and only if all 9 cells of the leaf are set:
\* false after any k < 9 distinct cells have been set, true after the 9th.
C26_LeafFull ==
    ret.op = "is_full" =>
        (ret.val <=> Cardinality(Occupied(work)) = BOARD_SIZE_SQUARED)

\* A leaf filled by both players, the ninth cell set last, answered true.
C26_Witness ==
    /\ ret.op = "is_full" /\ ret.val
    /\ work.x # {} /\ work.o # {}
    /\ Cardinality(work.x) + Cardinality(work.o) = BOARD_SIZE_SQUARED

\* C30: on every turn (first turn, turns after tree reuse, engine moving
\* first or second), the move get_move returns is one of
\* get_possible_moves() of the board it was given.
C30_LegalMove ==
    [][MCReturns => \E k \in 1 .. Len(V1_moves(mb)) :
                        V1_moves(mb)[k] = ret'.val]_vars

\* The engine moved first, the opponent answered, and the engine has
\* returned its second move from the re-rooted tree.
C30_Witness ==
    /\ impl = "mcts" /\ pc \in {"ask_opponent", "over"}
    /\ turns = MaxTurns
    /\ ret.op = "get_move"
    /\ tree_head.move_ = <<ret.val>>
    /\ tree_head.visit_count > 0

\* The worker is in the middle of an iteration or of handling a message.
BG_Busy == bg.wpc \in {"iterating", "handling"}

\* The worker takes a message from the channel in this step.
BG_Takes == Len(bg.handled') > Len(bg.handled)

\* C27: one iteration or one message-handling step of the worker and the
\* caller's read of the best child exclude each other under one lock: the
\* caller holds the lock exactly while it reads, the worker exactly in the
\* middle of a step, and what the caller sees is the tree and the internal
\* state as the last finished step left them; a message is taken only when
\* no iteration is running, and the messages are taken in the order sent.
C27_MutualExclusion ==
    /\ [](/\ BG_Busy <=> bg.lock = "worker"
          /\ pc = "read" <=> bg.lock = "caller"
          /\ bg.lock = "caller" =>
                (tree_head = bg.stable.tree /\ work = bg.stable.board)
          /\ bg.sent = bg.handled \o bg.chan)
    /\ [][BG_Takes => /\ bg.wpc \in {"poll", "paused"}
                      /\ bg.lock = "free"
                      /\ bg.handled' = Append(bg.handled, Head(bg.chan))]_vars

\* The caller has sent Pause while an iteration is running and waits for
\* the lock.
C27_Witness ==
    /\ impl = "background"
    /\ bg.wpc = "iterating"
    /\ pc = "lock"
    /\ bg.chan # <<>> /\ Head(bg.chan).type = "Pause"

\* The worker has handled Resume and nothing after it.
BG_Resumed ==
    /\ bg.wpc = "poll"
    /\ bg.handled # <<>>
    /\ bg.handled[Len(bg.handled)].type = "Resume"

\* C28: after the worker handles Pause it performs exactly one more
\* iteration, then stops with the lock released and iterates no more until
\* it handles Resume; after Resume it iterates again (unless the model's
\* MaxIter iterations are used up).
C28_Pause ==
    /\ [](/\ bg.last => (bg.since = 0 /\ bg.wpc \in {"poll", "iterating"})
          /\ bg.wpc = "paused" => (bg.since = 1 /\ bg.lock # "worker"))
    /\ [][/\ bg.last => ~BG_Takes
          /\ (bg.last /\ bg.wpc' # bg.wpc) => bg.wpc' \in {"iterating", "paused"}
          /\ (bg.last /\ ~bg.last') => (bg.wpc' = "paused" /\ iter' = iter + 1)
          /\ (bg.wpc = "paused" /\ bg.wpc' = "paused") =>
                (iter' = iter /\ tree_head' = tree_head /\ work' = work)
          /\ (bg.wpc = "paused" /\ bg.wpc' # "paused") =>
                /\ Head(bg.chan).type = "Resume" /\ BG_Takes
                /\ bg.wpc' = "poll"
                /\ iter' = iter /\ tree_head' = tree_head /\ work' = work]_vars
    /\ [](BG_Resumed => <>(bg.wpc = "iterating" \/ iter >= MaxIter))

\* The worker was paused and resumed, and has iterated again since.
C28_Witness ==
    /\ impl = "background"
    /\ \E k \in 1 .. Len(bg.handled) : bg.handled[k].type = "Resume"
    /\ bg.since > 1
    /\ bg.wpc = "poll"

\* C29: Pause followed by Resume leaves the tree and the internal state as
\* at most one more iteration makes them from what they were when Pause
\* was handled, the internal position unchanged; AdvanceMove(m) applies m
\* to the internal state and makes the root's child matching m the new
\* root, its score and visit count (and subtree) as they were.
C29_PauseResumeAdvance ==
    /\ [](bg.wpc = "paused" =>
             /\ work = bg.snap.board
             /\ \/ tree_head = bg.snap.tree
                \/ \E seed \in Seeds :
                      tree_head = V1_select_and_backtrack(bg.snap.tree,
                                      bg.snap.board, seed).node)
    /\ [][/\ (bg.wpc = "paused" /\ BG_Takes) =>
                (tree_head' = tree_head /\ work' = work)
          /\ (BG_Takes /\ Head(bg.chan).type = "AdvanceMove") =>
                work' = V1_MetaBoard_set(work, Head(bg.chan).move[1])
          /\ (bg.wpc = "handling" /\ bg.wpc' # "handling"
                /\ bg.cur[1].type = "AdvanceMove"
                /\ Matching(tree_head.children, bg.cur[1].move[1]) # {}) =>
                /\ work' = work
                /\ \E i \in Matching(tree_head.children, bg.cur[1].move[1]) :
                      tree_head' = tree_head.children[i]]_vars

\* Pause, Resume and then AdvanceMove were handled, and the new root is a
\* child that had been visited.
C29_Witness ==
    /\ impl = "background"
    /\ bg.wpc = "poll"
    /\ Len(bg.handled) > 2
    /\ bg.handled[Len(bg.handled)].type = "AdvanceMove"
    /\ bg.handled[Len(bg.handled) - 1].type = "Resume"
    /\ bg.handled[Len(bg.handled) - 2].type = "Pause"
    /\ tree_head.move_ = bg.handled[Len(bg.handled)].move
    /\ tree_head.visit_count > 0
    /\ work.last_move = tree_head.move_

\* The moves of a list of children, in order.
ChildMoves(c) == [k \in 1 .. Len(c) |-> c[k].move_]

\* Over the whole tree, one iteration entered at `board`: a node that had
\* children keeps them, move by move; a node that got children got one per
\* legal move of its position, in the order of the listing, all without
\* children, one of them played out once and the others untouched.
RECURSIVE ExpandOK(_, _, _)
ExpandOK(old, new, board) ==
    IF old.children = <<>>
    THEN new.children # <<>> =>
            /\ ChildMoves(new.children)
                  = [k \in 1 .. Len(V1_moves(board)) |-> <<V1_moves(board)[k]>>]
            /\ \A k \in 1 .. Len(new.children) :
                  /\ new.children[k].children = <<>>
                  /\ new.children[k].visit_count <= 1
                  /\ new.children[k].visit_count = 0 => new.children[k].score2 = 0
            /\ Cardinality({k \in 1 .. Len(new.children) :
                               new.children[k].visit_count = 1}) = 1
    ELSE /\ ChildMoves(new.children) = ChildMoves(old.children)
         /\ \A k \in 1 .. Len(old.children) :
               ExpandOK(old.children[k], new.children[k],
                        V1_MetaBoard_set(board, old.children[k].move_[1]))

\* No node stands at a position without legal moves and has children: the
\* root's position is `board`.
RECURSIVE NoChildrenAtEnd(_, _)
NoChildrenAtEnd(node, board) ==
    node.children # <<>> =>
        /\ V1_moves(board) # <<>>
        /\ \A k \in 1 .. Len(node.children) :
              NoChildrenAtEnd(node.children[k],
                              V1_MetaBoard_set(board, node.children[k].move_[1]))

\* C31: a node's children are created at most once, when it is first
\* expanded at a position with legal moves: one child per legal move, in the
\* order of the listing, each created with score 0, visit_count 0 and no
\* children (one of them is played out at once); a node at a position
\* without legal moves has no children, however often it was visited.
C31_ExpandOnce ==
    pc = "search" =>
        /\ iter > 0 => ExpandOK(before.tree, tree_head, before.board)
        /\ NoChildrenAtEnd(tree_head, mb)

\* The last iteration expanded a root child that had been visited before,
\* and an earlier one ended at a position without moves for the second time.
C31_Witness ==
    /\ pc = "search" /\ iter > 2
    /\ \E k \in 1 .. Len(tree_head.children) :
          /\ before.tree.children[k].children = <<>>
          /\ before.tree.children[k].visit_count > 0
          /\ tree_head.children[k].children # <<>>
    /\ \E k \in 1 .. Len(tree_head.children) :
          /\ tree_head.children[k].children = <<>>
          /\ tree_head.children[k].visit_count > 1

\* The marks on the leaf boards a .. META_BOARD_SIZE - 1 of a version1.rs
\* board.
RECURSIVE V1_marks_from(_, _)
V1_marks_from(b, a) ==
    IF a >= META_BOARD_SIZE THEN 0
    ELSE Cardinality(Occupied(b.boards[a])) + V1_marks_from(b, a + 1)

V1_marks(b) == V1_marks_from(b, 0)

\* Setting m on b puts one mark on the cell of m, which was empty, on a leaf
\* board without a line, and no other mark anywhere.
FillsOne(b, m) ==
    /\ m.board_index \notin Occupied(b.boards[m.meta_index])
    /\ Open(b.boards[m.meta_index])
    /\ \A a \in 0 .. (META_BOARD_SIZE - 1) :
          Occupied(V1_MetaBoard_set(b, m).boards[a])
             = IF a = m.meta_index
               THEN Occupied(b.boards[a]) \cup {m.board_index}
               ELSE Occupied(b.boards[a])

\* Every move of the list is such a move.
FillsOpenCell(b, moves) == \A k \in 1 .. Len(moves) : FillsOne(b, moves[k])

\* The loop of playout from b, which has n marks, with the stream of seed
\* `seed`, round j next: every round has only such moves to pick from, and
\* the loop ends with at most META_BOARD_SIZE * BOARD_SIZE_SQUARED marks.
RECURSIVE PlayoutEnds(_, _, _, _)
PlayoutEnds(b, seed, j, n) ==
    LET moves == V1_moves(b) IN
    IF moves = <<>>
    THEN V1_marks(b) = n /\ n <= META_BOARD_SIZE * BOARD_SIZE_SQUARED
    ELSE /\ n < META_BOARD_SIZE * BOARD_SIZE_SQUARED
         /\ FillsOpenCell(b, moves)
         /\ PlayoutEnds(V1_playout_pick(b, moves, seed, j), seed, j + 1, n + 1)

\* C32: in version1.rs every legal move is an empty cell of an undecided
\* leaf board and setting it adds one mark, so a game of legal moves, and
\* the loop of playout from any position of it, has no legal move left
\* after at most 81 marks on the two-level board.
C32_Terminates ==
    impl = "version1" =>
        /\ V1_marks(mb) = Len(hist)
        /\ Len(hist) <= META_BOARD_SIZE * BOARD_SIZE_SQUARED
        /\ \A seed \in Seeds : PlayoutEnds(mb, seed, 1, Len(hist))

\* A game in progress, with a decided and a full leaf board on it, from
\* which the playout still has moves to make.
C32_Witness ==
    /\ impl = "version1"
    /\ ret.op = "set"
    /\ V1_moves(mb) # <<>>
    /\ \E a \in Cells : Decided(mb.boards[a])
    /\ \E a \in Cells : Occupied(mb.boards[a]) = Cells

\* GameState::set returned Ok in this step.
G_Accepted == ret'.op = "set" /\ ret'.ok /\ ncalls' = ncalls + 1

\* C33: every move GameState.set accepts is, by its path, one of the moves
\* get_possible_moves lists for the state before the call.
C33_AcceptedLegal ==
    [][G_Accepted =>
          G_path(gs'.last_move[1]) \in G_paths(G_moves(gs))]_vars

\* The winner the summary cells of the root board show.
G_RootWinner(s) ==
    IF HasLine(s.board.board.x) THEN "X"
    ELSE IF HasLine(s.board.board.o) THEN "O"
    ELSE "Empty"

\* C34: in every state of a game of legal moves, GameState.set accepts every
\* move get_possible_moves lists, and the value it returns is the winner of
\* the root board after the move.
C34_LegalAccepted ==
    impl = "game" =>
        \A k \in 1 .. Len(G_moves(gs)) :
            /\ G_GameState_set(gs, G_moves(gs)[k]).ok
            /\ G_GameState_set(gs, G_moves(gs)[k]).val
                  = G_RootWinner(G_GameState_set(gs, G_moves(gs)[k]).s)

\* A game in progress in which a listed move wins the root board and
\* another one does not.
C34_Witness ==
    /\ impl = "game"
    /\ ret.op = "set"
    /\ \E k \in 1 .. Len(G_moves(gs)) :
          G_GameState_set(gs, G_moves(gs)[k]).val \in {"X", "O"}
    /\ \E k \in 1 .. Len(G_moves(gs)) :
          G_GameState_set(gs, G_moves(gs)[k]).val = "Empty"

\* The summary cell of the sub-board a path enters is X or O.
G_Closed(s, p) == G_BitBoard_get(s.board.board, p[1]) # "Empty"

\* C35: no move get_possible_moves lists lies in a sub-board whose summary
\* cell is X or O; GameState.set of a move into such a sub-board returns
\* Err("Board is already won") and leaves board, current_player and
\* last_move as they were.
C35_ClosedBoards ==
    /\ [](/\ \A k \in 1 .. Len(G_moves(gs)) : ~G_Closed(gs, G_path(G_moves(gs)[k]))
          /\ \A p \in AllPaths :
                G_Closed(gs, p) =>
                   /\ ~G_GameState_set(gs, G_MetaMove_new(p)).ok
                   /\ G_GameState_set(gs, G_MetaMove_new(p)).val = "Board is already won"
                   /\ G_GameState_set(gs, G_MetaMove_new(p)).s = gs)
    /\ [][(ret'.op = "set" /\ ret'.val = "Board is already won"
             /\ ncalls' = ncalls + 1)
          => (~ret'.ok /\ gs' = gs)]_vars

\* A set into a sub-board whose summary cell is taken was refused, while
\* other sub-boards still list moves.
C35_Witness ==
    /\ impl = "calls"
    /\ ret.op = "set" /\ ~ret.ok /\ ret.val = "Board is already won"
    /\ \E a \in Cells : G_BitBoard_get(gs.board.board, a) # "Empty"
    /\ G_moves(gs) # <<>>

\* The visits of the children c[k], c[k+1], ... together.
RECURSIVE ChildVisits(_, _)
ChildVisits(c, k) ==
    IF k > Len(c) THEN 0 ELSE c[k].visit_count + ChildVisits(c, k + 1)

\* visit_count of a node less the visits of its children.
OwnVisits(node) == node.visit_count - ChildVisits(node.children, 1)

\* Every node with children has as many visits as its children together.
RECURSIVE Conserved(_)
Conserved(node) ==
    node.children # <<>> =>
        /\ OwnVisits(node) = 0
        /\ \A k \in 1 .. Len(node.children) : Conserved(node.children[k])

\* C36: in every tree that iterations and re-rooting reach, every node that
\* has children has visit_count equal to the sum of its children's
\* visit_count.
C36_Conservation == impl = "mcts" => Conserved(tree_head)

\* Every node with children has the visits of its children together, or one
\* more.
RECURSIVE NearlyConserved(_)
NearlyConserved(node) ==
    node.children # <<>> =>
        /\ OwnVisits(node) \in {0, 1}
        /\ \A k \in 1 .. Len(node.children) : NearlyConserved(node.children[k])

\* The node an iteration expanded has, beside its children's visits, the
\* visits it had before (one if playout had visited it, else none); a node
\* that had children keeps its difference.
RECURSIVE OwnVisitsKept(_, _)
OwnVisitsKept(old, new) ==
    new.children # <<>> =>
        /\ OwnVisits(new) = (IF old.children = <<>> THEN old.visit_count
                             ELSE OwnVisits(old))
        /\ old.children # <<>> =>
              \A k \in 1 .. Len(new.children) :
                  OwnVisitsKept(old.children[k], new.children[k])

\* C36 as amended: every node that has children has visit_count equal to
\* the sum of its children's visit_count plus the visits it received while
\* it had no children: one if playout visited it before it was expanded,
\* none otherwise (none for the root of a new engine).
C36_Amended ==
    impl = "mcts" =>
        /\ NearlyConserved(tree_head)
        /\ (tree_head.move_ = <<>> /\ tree_head.children # <<>>)
              => OwnVisits(tree_head) = 0
        /\ (pc = "search" /\ iter > 0) => OwnVisitsKept(before.tree, tree_head)

\* The last iteration expanded a root child that playout had visited: the
\* child has one visit more than its children, the root as many as its own.
C36_Witness ==
    /\ pc = "search" /\ iter > 1
    /\ OwnVisits(tree_head) = 0
    /\ \E k \in 1 .. Len(tree_head.children) :
          /\ before.tree.children[k].children = <<>>
          /\ before.tree.children[k].visit_count = 1
          /\ tree_head.children[k].children # <<>>
          /\ OwnVisits(tree_head.children[k]) = 1

\* Every node has a score between 0 and its visit_count (score2 is the
\* score in halves).
RECURSIVE ScoreBounded(_)
ScoreBounded(node) ==
    /\ 0 <= node.score2
    /\ node.score2 <= 2 * node.visit_count
    /\ \A k \in 1 .. Len(node.children) : ScoreBounded(node.children[k])

\* One iteration, over the whole tree: a node it did not visit is as it was,
\* with all below it; a node it visited has one visit more and 0, 1/2 or 1
\* more score.  A new child is compared with the node as created.
RECURSIVE VisitOK(_, _)
VisitOK(old, new) ==
    IF new.visit_count = old.visit_count THEN new = old
    ELSE /\ new.visit_count = old.visit_count + 1
         /\ new.score2 - old.score2 \in {0, 1, 2}
         /\ \A k \in 1 .. Len(new.children) :
               VisitOK(IF old.children = <<>>
                       THEN V1_GameTreeKnot(new.children[k].move_)
                       ELSE old.children[k],
                       new.children[k])

\* C37: in every reachable tree every node has 0 <= score <= visit_count,
\* the score a multiple of 0.5, and each visit of a node adds exactly 1 to
\* its visit_count and one of 0, 0.5 and 1 to its score.
C37_ScoreBounds ==
    impl = "mcts" =>
        /\ ScoreBounded(tree_head)
        /\ (pc = "search" /\ iter > 0) =>
              /\ tree_head.visit_count = before.tree.visit_count + 1
              /\ VisitOK(before.tree, tree_head)

\* After several iterations the root has a score that is no whole number,
\* one of its children has won every visit and another one none.
C37_Witness ==
    /\ pc = "search" /\ iter > 2
    /\ tree_head.score2 % 2 = 1
    /\ \E k \in 1 .. Len(tree_head.children) :
          /\ tree_head.children[k].visit_count > 0
          /\ tree_head.children[k].score2 = 2 * tree_head.children[k].visit_count
    /\ \E k \in 1 .. Len(tree_head.children) :
          /\ tree_head.children[k].visit_count > 0
          /\ tree_head.children[k].score2 = 0

\* The marks on the leaf boards a, a + 1, ... of a game.rs state.
RECURSIVE G_marks_from(_, _)
G_marks_from(s, a) ==
    IF a >= BOARD_SIZE_SQUARED THEN 0
    ELSE Cardinality(Occupied(G_leaf(s, a))) + G_marks_from(s, a + 1)

G_marks(s) == G_marks_from(s, 0)

\* A call of set or unset returns in this step.
G_Called(op) == ret'.op = op /\ ncalls' = ncalls + 1

\* C38: in game.rs current_player is always X or O, X in GameState::new();
\* it flips on every set that returns Ok and on every unset made while
\* last_move is Some, and stays on a refused set and on an unset with
\* last_move None; while every unset was given the true previous move it is
\* X exactly when the number of marks on the leaf boards is even.
C38_Alternation ==
    /\ [](/\ gs.current_player \in {"X", "O"}
          /\ ret.op = "new" => gs.current_player = "X"
          /\ matched => (gs.current_player = "X" <=> G_marks(gs) % 2 = 0))
    /\ [][/\ G_Called("set") =>
                gs'.current_player = (IF ret'.ok THEN G_to_other(gs.current_player)
                                      ELSE gs.current_player)
          /\ G_Called("unset") =>
                gs'.current_player = (IF gs.last_move # <<>>
                                      THEN G_to_other(gs.current_player)
                                      ELSE gs.current_player)]_vars

\* After six calls, every unset among them given the true previous move and
\* the last one a refused set, O is to move on three marks.
C38_Witness ==
    /\ impl = "calls"
    /\ matched
    /\ ret.op = "set" /\ ~ret.ok
    /\ gs.current_player = "O"
    /\ G_marks(gs) = 3
    /\ Len(hist) = 3
    /\ ncalls > 5

====
